---- MODULE Spec2Model ----
(***************************************************************************)
(* Batch orchestration engine of tradestat_pipeline: the progress ledger   *)
(* (utils/hs_code_db.py), the batch runner and its chunk semaphore         *)
(* (engine/batch_runner.py), the per-item worker (pipeline/worker.py), the *)
(* retry loop around one fetch (utils/retry_manager.py) and the browser    *)
(* pool with the scrape task that leases from it (scraper/browser_pool.py, *)
(* scraper/controller.py).                                                 *)
(*                                                                         *)
(* Spec     : batch runs over the ledger (scheduler + worker + ledger).    *)
(* FairSpec : one batch run with the event loop's fairness, for liveness.  *)
(* SpecPool : concurrent scrape tasks leasing browsers from the pool.      *)
(* SpecRetry     : one retry loop over every configuration and outcome.    *)
(* SpecThrottle  : callers of the per-host throttler on a discrete clock.  *)
(* SpecClose     : close_all / close_global_pool on a pool in any state.   *)
(* SpecConfig    : start_batch called with any chunk_size / max_parallel.  *)
(* SpecCancel    : a batch run whose awaiting task is cancelled.           *)
(* SpecChunk     : chunk_list on every bounded list and chunk size.        *)
(* SpecTransform : the mode loop of process_chunk over result payloads     *)
(*                 (storage/processor.py, storage/normalizer.py).          *)
(* SpecLoad      : loading codes from a text file into the ledger.         *)
(* SpecClean     : Process and Normalize applied to bounded row strings.   *)
(* SpecRunFail   : a batch run whose first chunk creates the pool, with a  *)
(*                 browser start that can fail.                            *)
(* SpecStages    : the mode loop of process_chunk statement by statement,  *)
(*                 with a crash possible between two statements.           *)
(* FairPoolSpec  : one run of scrape tasks on the pool, with fairness.     *)
(* SpecPoolFail  : SpecPool with a browser start that can fail.            *)
(***************************************************************************)
EXTENDS Integers, Sequences, FiniteSets, TLC

\* ---------------------------------------------------------------- bounds
NumCodes == 2
MaxWork == 3
MaxChunkSize == 2
MaxParallel == 2
MaxInsertLen == 2
NumTasks == 3
NumCallers == 2
MaxCalls == 3
MaxClock == 12
MaxPoolRuns == 2
MaxCloseCalls == 3
PoolSize == 2
MaxInitialDelay == 2
MaxDelayCap == 4
MaxBase == 2
JitterSteps == 2
MaxAttemptIndex == 4
MaxChunkInput == 5
MaxChunkArg == 4
MaxPartners == 3
MaxIds == 2
MaxLines == 3
MaxStrLen == 4
MaxCleanRows == 2
MaxRepeats == 2

\* SCRAPER_RETRY_CONFIG.max_retries
MaxRetries == 3

\* get_throttler(min_delay=1.5, max_delay=3.0), in half seconds
ThrottleMinDelay == 3
ThrottleMaxDelay == 6

\* load_hs_codes: if len(code) != 8
HsCodeLen == 8

Codes == 1..NumCodes
Modes == {"export", "import"}
Stages == <<"raw", "process", "processed", "normalize">>
Tasks == 1..NumTasks
Handles == 1..PoolSize

Min(a, b) == IF a < b THEN a ELSE b
Range(s) == {s[i] : i \in 1..Len(s)}

VARIABLES
  \* ---- progress ledger (table hs_codes)
  ledger,       \* hs_code -> row
  rowOrder,     \* hs_codes in rowid (insertion) order
  \* ---- batch runner
  phase,        \* "idle" | "running"
  runs,         \* batch runs that loaded work so far; also the clock CURRENT_TIMESTAMP reads
  work,         \* hs codes loaded by all runs so far
  chunks,       \* chunk_list(pending_codes, chunk_size) of the current run
  max_parallel, \* the run's max_parallel
  sem,          \* value of asyncio.Semaphore(max_parallel)
  \* ---- one sem_task / process_chunk per chunk
  cpc,          \* "queued" | "fetch" | "export" | "import" | "overall" | "done"
  idx,          \* position of the chunk's current hs in the chunk
  fetch,        \* per chunk and mode: the _scrape_mode_with_retry task of the current hs
  firstDone,    \* per chunk: the mode whose fetch reached a terminal state first
  starts,       \* per chunk: how many times its processing was started
  \* ---- what the current run has done (observation only)
  atLoad,       \* the ledger as the run loaded it
  outcome,      \* hs_code -> mode -> terminal outcome in this run
  transformed,  \* <<hs_code, mode>> pairs whose transform stages were entered
  \* ---- browser pool and scrape tasks (SpecPool)
  poolState,    \* "absent" | "initializing" | "ready" | "closed" (after close_all) |
                \* "partial" (initialize raised: _global_pool is set, initialized is False)
  active,       \* BrowserPool.active_browsers
  available,    \* BrowserPool.available_browsers (FIFO queue)
  tpc,          \* per scrape task: "start" | "init" | "waiting" | "body" | "ok" | "failed"
  held,         \* per scrape task: the page it leased (0: none)
  attempt,      \* per scrape task: retry_async's attempt index
  lastExit,     \* per scrape task: how its latest controller.run ended
  created,      \* BrowserPool objects constructed in the current batch run
  poolId,       \* which of them _global_pool is (0: None)
  started,      \* browsers started in the current batch run
  gotPool,      \* per scrape task: the pool get_global_pool returned to it (0: none)
  prun,         \* "running" | "closed": start_batch before / after its finally block;
                \* "aborting": run_scheduler is about to raise
  pruns,        \* batch runs started in this process
  closes,       \* pools closed in the current batch run
  \* ---- one retry_async / retry_sync call (SpecRetry)
  rcfg,         \* the RetryConfig of the call
  rvariant,     \* "async" | "sync"
  rpc,          \* "call" | "sleep" | "returned" | "raised"
  rattempt,     \* the loop variable attempt
  rcalls,       \* invocations of func so far
  rdelays,      \* the delays slept so far, in units of 1 / (2 * JitterSteps)
  rraised,      \* the exception that left the call: <<[call, retriable]>>, or NULL
  rresult,      \* the value the call returned: <<the invocation whose result it is>>, or NULL
  \* ---- request throttler and its callers (SpecThrottle); times in half seconds
  clock,             \* time.time()
  throttlerMade,     \* _global_throttler is not None
  tlock,             \* the caller holding RequestThrottler.lock (0: free)
  last_request_time, \* host -> time (0: no entry)
  wpc,               \* per caller: "idle" | "lockwait" | "sleeping"
  whost,             \* per caller: the domain of its wait call ("none" when idle)
  wake,              \* per caller: when its throttle sleep is over (0 when not sleeping)
  ncalls,            \* wait calls and navigations issued so far
  returned,          \* host -> the times at which wait(host) returned
  navs,              \* host -> the times at which page.goto was issued to it
  \* ---- one chunk_list call (SpecChunk)
  ckData,       \* the argument data
  ckSize,       \* the argument chunk_size
  ckPc,         \* "call" | "returned" | "raised"
  ckResult,     \* the list of chunks returned
  \* ---- how start_batch ended at startup (SpecConfig)
  startError,   \* the exception start_batch raised: "none" | "ValueError" | "Exception"
  stats,        \* the stats the latest start_batch logged before it returned, or NULL
  \* ---- operator interrupt of a run (SpecCancel)
  interrupted,  \* the run's main task was cancelled by an interrupt
  \* ---- the mode loop of process_chunk for one hs, with its payloads (SpecTransform)
  tfHs,         \* the hs of the iteration
  tfResults,    \* the dict results: mode -> payload
  tfPc,         \* "export" | "import" | "overall" | "done"
  tfFiles,      \* the files written: <<kind, mode, hs>> -> content
  tfLedger,     \* the ledger: hs -> row
  tfErr,        \* per mode: the exception its iteration raised ("none": none)
  tfStage,      \* the statement of the iteration's try block that runs next:
                \* "raw" | "process" | "processed" | "normalize" | "mark"; "crashed": the process died
  tfProcessed,  \* the local variable processed of the iteration: NULL or Some(record)
  tfWrites,     \* the paths of the files written so far, in the order of the writes
  \* ---- loading codes from a text file (SpecLoad)
  ldLines,      \* the lines of the file, without their line ends
  ldPc,         \* "call" | "loader" (load_hs_codes returned) | "db" (load_from_text_file returned)
  ldCodes,      \* the list load_hs_codes returned
  ldLedger,     \* the ledger after load_from_text_file: hs_code -> row
  ldOrder,      \* its codes in rowid order
  \* ---- Process and Normalize applied repeatedly to one payload (SpecClean)
  clRows,       \* partner_countries of the payload's year: None or a list of rows
  clProcessed,  \* the records process_raw_payload returned, call by call
  clNormalized, \* the row lists normalize_processed_payload returned for the first record
  \* ---- pool shutdown
  lastClose,    \* the latest close_all / close_global_pool call: what it did
  closeCalls    \* close_all / close_global_pool calls so far

ledgerVars == <<ledger, rowOrder>>
runVars == <<phase, runs, work, chunks, max_parallel, sem>>
chunkVars == <<cpc, idx, fetch, firstDone, starts>>
obsVars == <<atLoad, outcome, transformed>>
poolVars == <<poolState, active, available, tpc, held, attempt, lastExit,
              created, poolId, started, gotPool, prun, pruns, closes>>
retryVars == <<rcfg, rvariant, rpc, rattempt, rcalls, rdelays, rraised, rresult>>
throttleVars == <<clock, throttlerMade, tlock, last_request_time, wpc, whost, wake,
                  ncalls, returned, navs>>
closeVars == <<lastClose, closeCalls>>
chunkerVars == <<ckData, ckSize, ckPc, ckResult>>
configVars == <<startError, stats>>
cancelVars == <<interrupted>>
transformVars == <<tfHs, tfResults, tfPc, tfFiles, tfLedger, tfErr, tfStage, tfProcessed, tfWrites>>
loadVars == <<ldLines, ldPc, ldCodes, ldLedger, ldOrder>>
cleanVars == <<clRows, clProcessed, clNormalized>>
dataVars == <<chunkerVars, configVars, cancelVars, transformVars, loadVars, cleanVars>>
extVars == <<retryVars, throttleVars, closeVars, dataVars>>
vars == <<ledgerVars, runVars, chunkVars, obsVars, poolVars, extVars>>

\* ------------------------------------------------------ progress ledger
NULL == <<>>
\* a value that may be None is NULL or Some(x)
Some(x) == <<x>>

\* CREATE TABLE defaults
NewRow ==
  [status |-> "pending", last_scraped_at |-> NULL,
   export_status |-> "pending", import_status |-> "pending",
   export_scraped_at |-> NULL, import_scraped_at |-> NULL,
   error_count |-> 0, last_error |-> NULL]

\* faulty variant of bulk_insert: INSERT OR REPLACE, an existing row starts over
BulkInsertReplace(db, hs_codes) ==
  [c \in DOMAIN db \cup Range(hs_codes) |->
     IF c \in DOMAIN db /\ c \notin Range(hs_codes) THEN db[c] ELSE NewRow]

\* INSERT OR IGNORE of every code of the list
BulkInsert(db, hs_codes) ==
  [c \in DOMAIN db \cup Range(hs_codes) |-> IF c \in DOMAIN db THEN db[c] ELSE NewRow]

RECURSIVE AppendNew(_, _)
AppendNew(order, hs_codes) ==
  IF hs_codes = <<>> THEN order
  ELSE AppendNew(IF Head(hs_codes) \in Range(order) THEN order
                 ELSE Append(order, Head(hs_codes)),
                 Tail(hs_codes))

\* SELECT hs_code FROM hs_codes WHERE status = 'pending'
\* faulty variant of get_pending: WHERE status != 'completed', failed rows come back
GetPendingNotCompleted(db, order) == SelectSeq(order, LAMBDA c : db[c].status # "completed")

GetPending(db, order) == SelectSeq(order, LAMBDA c : db[c].status = "pending")

\* get_stats: the five COUNT(*) queries (completion_rate is computed from
\* completed and total)
GetStats(db) ==
  [total |-> Cardinality(DOMAIN db),
   completed |-> Cardinality({c \in DOMAIN db : db[c].status = "completed"}),
   pending |-> Cardinality({c \in DOMAIN db : db[c].status = "pending"}),
   export_completed |-> Cardinality({c \in DOMAIN db : db[c].export_status = "completed"}),
   import_completed |-> Cardinality({c \in DOMAIN db : db[c].import_status = "completed"})]

\* faulty variant of mark_completed: also clears the error columns
MarkCompletedClearsErrors(db, hs, t) ==
  [db EXCEPT ![hs] = [@ EXCEPT !.status = "completed",
                               !.export_status = "completed",
                               !.import_status = "completed",
                               !.last_scraped_at = <<t>>,
                               !.error_count = 0,
                               !.last_error = NULL]]

\* faulty variant of mark_completed: writes the overall columns only
MarkCompletedOverallOnly(db, hs, t) ==
  IF hs \notin DOMAIN db THEN db
  ELSE [db EXCEPT ![hs].status = "completed",
                  ![hs].last_scraped_at = <<t>>]

MarkCompleted(db, hs, t) ==
  IF hs \notin DOMAIN db THEN db
  ELSE [db EXCEPT ![hs].status = "completed",
                  ![hs].export_status = "completed",
                  ![hs].import_status = "completed",
                  ![hs].last_scraped_at = <<t>>]

\* faulty variant of mark_export_completed: also completes the row when the
\* import is already completed
MarkExportCompletedAndOverall(db, hs, t) ==
  IF hs \notin DOMAIN db THEN db
  ELSE [db EXCEPT ![hs].export_status = "completed",
                  ![hs].export_scraped_at = <<t>>,
                  ![hs].status = IF db[hs].import_status = "completed"
                                 THEN "completed" ELSE @]

MarkExportCompleted(db, hs, t) ==
  IF hs \notin DOMAIN db THEN db
  ELSE [db EXCEPT ![hs].export_status = "completed",
                  ![hs].export_scraped_at = <<t>>]

MarkImportCompleted(db, hs, t) ==
  IF hs \notin DOMAIN db THEN db
  ELSE [db EXCEPT ![hs].import_status = "completed",
                  ![hs].import_scraped_at = <<t>>]

\* faulty variant of mark_failed: the overall branch does not count the error
MarkFailedKeepsCount(db, hs, error, trade_mode) ==
  IF hs \notin DOMAIN db THEN db
  ELSE IF trade_mode = "export"
       THEN [db EXCEPT ![hs].export_status = "failed",
                       ![hs].error_count = @ + 1,
                       ![hs].last_error = <<error>>]
  ELSE IF trade_mode = "import"
       THEN [db EXCEPT ![hs].import_status = "failed",
                       ![hs].error_count = @ + 1,
                       ![hs].last_error = <<error>>]
  ELSE [db EXCEPT ![hs].status = "failed",
                  ![hs].last_error = <<error>>]

\* trade_mode is "export", "import" or "overall" (the default None)
MarkFailed(db, hs, error, trade_mode) ==
  IF hs \notin DOMAIN db THEN db
  ELSE IF trade_mode = "export"
       THEN [db EXCEPT ![hs].export_status = "failed",
                       ![hs].error_count = @ + 1,
                       ![hs].last_error = <<error>>]
  ELSE IF trade_mode = "import"
       THEN [db EXCEPT ![hs].import_status = "failed",
                       ![hs].error_count = @ + 1,
                       ![hs].last_error = <<error>>]
  ELSE [db EXCEPT ![hs].status = "failed",
                  ![hs].error_count = @ + 1,
                  ![hs].last_error = <<error>>]

ModeStatus(row, m) == IF m = "export" THEN row.export_status ELSE row.import_status
ModeScrapedAt(row, m) == IF m = "export" THEN row.export_scraped_at ELSE row.import_scraped_at
OtherMode(m) == IF m = "export" THEN "import" ELSE "export"

\* error messages the worker writes
BothFailedMsg == [stage |-> "fetch", mode |-> "both"]
StageError(s, m) == [stage |-> s, mode |-> m]

\* --------------------------------------------------------------- chunker
\* the loop of chunk_list from offset i on:
\* for i in range(0, total, chunk_size): chunks.append(data[i:i + chunk_size])
RECURSIVE ChunkFrom(_, _, _)
ChunkFrom(data, chunk_size, i) ==
  IF i >= Len(data)
  THEN <<>>
  ELSE <<SubSeq(data, i + 1, Min(i + chunk_size, Len(data)))>>
         \o ChunkFrom(data, chunk_size, i + chunk_size)

\* faulty variant of chunk_list: only full chunks, the remainder is dropped
ChunkListFullOnly(data, chunk_size) ==
  [i \in 1..(Len(data) \div chunk_size) |->
     SubSeq(data, (i - 1) * chunk_size + 1, i * chunk_size)]

\* chunk_list for chunk_size > 0
ChunkList(data, chunk_size) == ChunkFrom(data, chunk_size, 0)

\* chunk_list returns its chunks
ChunkListReturns ==
  /\ ckPc = "call"
  /\ ckSize > 0
  /\ ckResult' = ChunkList(ckData, ckSize)
  /\ ckPc' = "returned"
  /\ UNCHANGED <<ledgerVars, runVars, chunkVars, obsVars, poolVars, retryVars, throttleVars,
                 closeVars, configVars, cancelVars, transformVars, loadVars, cleanVars, ckData, ckSize>>

\* chunk_list: if chunk_size <= 0: raise ValueError
ChunkListRaises ==
  /\ ckPc = "call"
  /\ ckSize <= 0
  /\ ckPc' = "raised"
  /\ UNCHANGED <<ledgerVars, runVars, chunkVars, obsVars, poolVars, retryVars, throttleVars,
                 closeVars, configVars, cancelVars, transformVars, loadVars, cleanVars, ckData, ckSize,
                 ckResult>>

\* ------------------------------------------------------- worker helpers
\* process_chunk has returned: its tasks are gone
NoFetch == [m \in Modes |-> "gone"]
NewFetch == [m \in Modes |-> "running"]
Item(ch) == chunks[ch][idx[ch]]
Terminal(ch, m) == fetch[ch][m] \in {"ok", "none"}
\* results = {mode: result for mode, result in mode_results if result is not None}
Results(ch) == {m \in Modes : fetch[ch][m] = "ok"}
InFlight == Cardinality({ch \in 1..Len(chunks) : cpc[ch] \notin {"queued", "done"}})
\* Between the return of asyncio.gather and the next await, process_chunk runs
\* synchronous code only: the event loop runs no other coroutine meanwhile.
SyncBusy == \E ch \in 1..Len(chunks) : cpc[ch] \in {"export", "import", "overall"}

\* the for loop of process_chunk moves to the next hs, or the chunk ends and
\* sem_task leaves "async with semaphore"
Advance(ch) ==
  IF idx[ch] < Len(chunks[ch])
  THEN /\ idx' = [idx EXCEPT ![ch] = @ + 1]
       /\ cpc' = [cpc EXCEPT ![ch] = "fetch"]
       /\ fetch' = [fetch EXCEPT ![ch] = NewFetch]
       /\ firstDone' = [firstDone EXCEPT ![ch] = "none"]
       /\ sem' = sem
  ELSE /\ cpc' = [cpc EXCEPT ![ch] = "done"]
       /\ fetch' = [fetch EXCEPT ![ch] = NoFetch]
       /\ firstDone' = [firstDone EXCEPT ![ch] = "none"]
       /\ sem' = sem + 1
       /\ UNCHANGED idx

\* -------------------------------------------------------------- actions
InsertLists == UNION {[1..n -> Codes] : n \in 1..MaxInsertLen}

\* HSCodeDatabase.bulk_insert between runs
BulkInsertCall(hs_codes) ==
  /\ phase = "idle"
  /\ ledger' = BulkInsert(ledger, hs_codes)
  /\ rowOrder' = AppendNew(rowOrder, hs_codes)
  /\ UNCHANGED <<runVars, chunkVars, obsVars, poolVars, extVars>>

\* start_batch with no pending code: logs the stats and returns
StartBatchEmpty ==
  /\ phase = "idle"
  /\ GetPending(ledger, rowOrder) = <<>>
  /\ stats' = Some(GetStats(ledger))
  /\ UNCHANGED <<ledgerVars, runVars, chunkVars, obsVars, poolVars, retryVars, throttleVars,
                 closeVars, chunkerVars, startError, cancelVars, transformVars, loadVars,
                 cleanVars>>

\* start_batch: load the pending codes, chunk them, enter run_scheduler
StartBatch(chunk_size, mp) ==
  /\ phase = "idle"
  /\ GetPending(ledger, rowOrder) # <<>>
  /\ chunk_size > 0
  /\ mp >= 0
  /\ work + Len(GetPending(ledger, rowOrder)) <= MaxWork
  /\ work' = work + Len(GetPending(ledger, rowOrder))
  /\ runs' = runs + 1
  /\ phase' = "running"
  /\ chunks' = ChunkList(GetPending(ledger, rowOrder), chunk_size)
  /\ max_parallel' = mp
  /\ sem' = mp
  /\ cpc' = [ch \in 1..Len(chunks') |-> "queued"]
  /\ idx' = [ch \in 1..Len(chunks') |-> 1]
  /\ fetch' = [ch \in 1..Len(chunks') |-> NewFetch]
  /\ firstDone' = [ch \in 1..Len(chunks') |-> "none"]
  /\ starts' = [ch \in 1..Len(chunks') |-> 0]
  /\ atLoad' = ledger
  /\ outcome' = [c \in DOMAIN ledger |-> [m \in Modes |-> "none"]]
  /\ transformed' = {}
  /\ stats' = NULL
  /\ UNCHANGED <<ledgerVars, poolVars, retryVars, throttleVars, closeVars, chunkerVars,
                 startError, cancelVars, transformVars, loadVars, cleanVars>>

\* start_batch with chunk_size <= 0: chunk_list raises ValueError out of start_batch
StartBatchChunkSizeRaises(chunk_size) ==
  /\ phase = "idle"
  /\ GetPending(ledger, rowOrder) # <<>>
  /\ chunk_size <= 0
  /\ startError' = "ValueError"
  /\ UNCHANGED <<ledgerVars, runVars, chunkVars, obsVars, poolVars, retryVars, throttleVars,
                 closeVars, chunkerVars, stats, cancelVars, transformVars, loadVars, cleanVars>>

\* start_batch with max_parallel < 0: asyncio.Semaphore raises ValueError in
\* run_scheduler before any sem_task exists; finally close_global_pool (no pool)
StartBatchSemaphoreRaises(chunk_size, mp) ==
  /\ phase = "idle"
  /\ GetPending(ledger, rowOrder) # <<>>
  /\ chunk_size > 0
  /\ mp < 0
  /\ startError' = "ValueError"
  /\ UNCHANGED <<ledgerVars, runVars, chunkVars, obsVars, poolVars, retryVars, throttleVars,
                 closeVars, chunkerVars, stats, cancelVars, transformVars, loadVars, cleanVars>>

\* faulty variant of sem_task: starts the chunk without waiting for the semaphore
AcquireSemNoLimit(ch) ==
  /\ phase = "running"
  /\ ~SyncBusy
  /\ cpc[ch] = "queued"
  /\ sem' = sem - 1
  /\ cpc' = [cpc EXCEPT ![ch] = "fetch"]
  /\ starts' = [starts EXCEPT ![ch] = @ + 1]
  /\ UNCHANGED <<ledgerVars, phase, runs, work, chunks, max_parallel, idx, fetch, firstDone,
                 obsVars, poolVars, extVars>>

\* sem_task enters "async with semaphore" and process_chunk starts its first hs
AcquireSem(ch) ==
  /\ phase = "running"
  /\ ~SyncBusy
  /\ cpc[ch] = "queued"
  /\ sem > 0
  /\ sem' = sem - 1
  /\ cpc' = [cpc EXCEPT ![ch] = "fetch"]
  /\ starts' = [starts EXCEPT ![ch] = @ + 1]
  /\ UNCHANGED <<ledgerVars, phase, runs, work, chunks, max_parallel, idx, fetch, firstDone,
                 obsVars, poolVars, extVars>>

NoteFirst(ch, m) ==
  firstDone' = [firstDone EXCEPT ![ch] = IF @ = "none" THEN m ELSE @]

\* _scrape_mode_with_retry: retry_async returned a payload, returns (mode, result)
FetchSucceeds(ch, m) ==
  /\ ~SyncBusy
  /\ cpc[ch] = "fetch"
  /\ fetch[ch][m] = "running"
  /\ fetch' = [fetch EXCEPT ![ch][m] = "ok"]
  /\ NoteFirst(ch, m)
  /\ UNCHANGED <<ledgerVars, runVars, cpc, idx, starts, obsVars, poolVars, extVars>>

\* _scrape_mode_with_retry: the last attempt of retry_async re-raised, returns (mode, None)
FetchExhausted(ch, m) ==
  /\ ~SyncBusy
  /\ cpc[ch] = "fetch"
  /\ fetch[ch][m] = "running"
  /\ fetch' = [fetch EXCEPT ![ch][m] = "none"]
  /\ NoteFirst(ch, m)
  /\ UNCHANGED <<ledgerVars, runVars, cpc, idx, starts, obsVars, poolVars, extVars>>

\* faulty variant of the join: acts as soon as one fetch has ended without a result
JoinBothFailedEarly(ch) ==
  /\ ~SyncBusy
  /\ cpc[ch] = "fetch"
  /\ \E m \in Modes : Terminal(ch, m)
  /\ Results(ch) = {}
  /\ ledger' = MarkFailed(ledger, Item(ch), BothFailedMsg, "overall")
  /\ outcome' = [outcome EXCEPT ![Item(ch)] =
                   [m \in Modes |-> "fetch_failed"]]
  /\ Advance(ch)
  /\ UNCHANGED <<rowOrder, phase, runs, work, chunks, max_parallel, starts, atLoad,
                 transformed, poolVars, extVars>>

\* asyncio.gather returned and results is empty: mark_failed(hs, msg); continue
JoinBothFailed(ch) ==
  /\ ~SyncBusy
  /\ cpc[ch] = "fetch"
  /\ \A m \in Modes : Terminal(ch, m)
  /\ Results(ch) = {}
  /\ ledger' = MarkFailed(ledger, Item(ch), BothFailedMsg, "overall")
  /\ outcome' = [outcome EXCEPT ![Item(ch)] =
                   [m \in Modes |-> "fetch_failed"]]
  /\ Advance(ch)
  /\ UNCHANGED <<rowOrder, phase, runs, work, chunks, max_parallel, starts, atLoad,
                 transformed, poolVars, extVars>>

\* asyncio.gather returned with at least one result: enter the mode loop
JoinSome(ch) ==
  /\ ~SyncBusy
  /\ cpc[ch] = "fetch"
  /\ \A m \in Modes : Terminal(ch, m)
  /\ Results(ch) # {}
  /\ cpc' = [cpc EXCEPT ![ch] = "export"]
  /\ UNCHANGED <<ledgerVars, runVars, idx, fetch, firstDone, starts, obsVars, poolVars, extVars>>

NextModePc(m) == IF m = "export" THEN "import" ELSE "overall"

\* mode loop: trade_mode not in results -> "Skipping ... no data"; continue
SkipMode(ch) ==
  /\ cpc[ch] \in Modes
  /\ cpc[ch] \notin Results(ch)
  /\ outcome' = [outcome EXCEPT ![Item(ch)][cpc[ch]] = "fetch_failed"]
  /\ cpc' = [cpc EXCEPT ![ch] = NextModePc(@)]
  /\ UNCHANGED <<ledgerVars, runVars, idx, fetch, firstDone, starts, atLoad,
                 transformed, poolVars, extVars>>

\* mode loop: the four stages succeed, then mark_<mode>_completed
TransformOk(ch) ==
  /\ cpc[ch] \in Modes
  /\ cpc[ch] \in Results(ch)
  /\ ledger' = IF cpc[ch] = "export"
               THEN MarkExportCompleted(ledger, Item(ch), runs)
               ELSE MarkImportCompleted(ledger, Item(ch), runs)
  /\ outcome' = [outcome EXCEPT ![Item(ch)][cpc[ch]] = "completed"]
  /\ transformed' = transformed \cup {<<Item(ch), cpc[ch]>>}
  /\ cpc' = [cpc EXCEPT ![ch] = NextModePc(@)]
  /\ UNCHANGED <<rowOrder, runVars, idx, fetch, firstDone, starts, atLoad, poolVars, extVars>>

\* faulty variant of the mode loop: the stage's exception is not caught, leaves
\* process_chunk and ends the chunk's sem_task
TransformFailsPropagates(ch, s) ==
  /\ cpc[ch] \in Modes
  /\ cpc[ch] \in Results(ch)
  /\ transformed' = transformed \cup {<<Item(ch), cpc[ch]>>}
  /\ cpc' = [cpc EXCEPT ![ch] = "done"]
  /\ fetch' = [fetch EXCEPT ![ch] = NoFetch]
  /\ firstDone' = [firstDone EXCEPT ![ch] = "none"]
  /\ sem' = sem + 1
  /\ UNCHANGED <<ledgerVars, phase, runs, work, chunks, max_parallel, idx, starts, atLoad,
                 outcome, poolVars, extVars>>

\* mode loop: stage s raises -> mark_failed(hs, str(mode_err), trade_mode)
TransformFails(ch, s) ==
  /\ cpc[ch] \in Modes
  /\ cpc[ch] \in Results(ch)
  /\ ledger' = MarkFailed(ledger, Item(ch), StageError(s, cpc[ch]), cpc[ch])
  /\ outcome' = [outcome EXCEPT ![Item(ch)][cpc[ch]] = "stage_failed"]
  /\ transformed' = transformed \cup {<<Item(ch), cpc[ch]>>}
  /\ cpc' = [cpc EXCEPT ![ch] = NextModePc(@)]
  /\ UNCHANGED <<rowOrder, runVars, idx, fetch, firstDone, starts, atLoad, poolVars, extVars>>

\* if "export" in results and "import" in results: db.mark_completed(hs)
BothInResults(ch) == "export" \in Results(ch) /\ "import" \in Results(ch)

OverallCompleted(ch) ==
  /\ cpc[ch] = "overall"
  /\ BothInResults(ch)
  /\ ledger' = MarkCompleted(ledger, Item(ch), runs)
  /\ Advance(ch)
  /\ UNCHANGED <<rowOrder, phase, runs, work, chunks, max_parallel, starts, obsVars, poolVars, extVars>>

OverallSkipped(ch) ==
  /\ cpc[ch] = "overall"
  /\ ~BothInResults(ch)
  /\ Advance(ch)
  /\ UNCHANGED <<ledgerVars, phase, runs, work, chunks, max_parallel, starts, obsVars, poolVars, extVars>>

\* asyncio.gather(*tasks) of run_scheduler returned; close_global_pool; final stats
FinishRun ==
  /\ phase = "running"
  /\ \A ch \in 1..Len(chunks) : cpc[ch] = "done"
  /\ phase' = "idle"
  /\ stats' = Some(GetStats(ledger))
  /\ UNCHANGED <<ledgerVars, runs, work, chunks, max_parallel, sem, chunkVars, obsVars, poolVars,
                 retryVars, throttleVars, closeVars, chunkerVars, startError, cancelVars,
                 transformVars, loadVars, cleanVars>>

\* An interrupt cancels the main task of asyncio.run: run_scheduler gets
\* CancelledError at its gather, which cancels every sem_task: a queued one at
\* the semaphore, one under way at the gather of process_chunk, which cancels
\* both _scrape_mode_with_retry tasks.  CancelledError is no Exception, so
\* retry_async and the worker do not catch it: a fetch is aborted at the await
\* it is suspended at, after the finally of controller.run has returned its
\* page.  Only inside the two bare "except:" of controller.run (product label,
\* summary) the cancellation is swallowed and the fetch runs on by itself (S).
InterruptRun(S) ==
  /\ phase = "running"
  /\ ~interrupted
  /\ ~SyncBusy
  /\ interrupted' = TRUE
  /\ cpc' = [ch \in 1..Len(chunks) |-> IF cpc[ch] = "done" THEN "done" ELSE "cancelled"]
  /\ fetch' = [ch \in 1..Len(chunks) |->
                 [m \in Modes |->
                    IF cpc[ch] # "fetch" THEN fetch[ch][m]
                    ELSE IF fetch[ch][m] # "running" THEN "gone"
                    ELSE IF <<ch, m>> \in S THEN "orphan" ELSE "cancelled"]]
  /\ sem' = max_parallel
  /\ UNCHANGED <<ledgerVars, phase, runs, work, chunks, max_parallel, idx, firstDone, starts,
                 obsVars, poolVars, retryVars, throttleVars, closeVars, chunkerVars, configVars,
                 transformVars, loadVars, cleanVars>>

\* a fetch that swallowed the cancellation ends (returns, raises or is cancelled
\* at a later await by asyncio.run); nobody awaits its result
OrphanEnds(ch, m) ==
  /\ interrupted
  /\ fetch[ch][m] = "orphan"
  /\ fetch' = [fetch EXCEPT ![ch][m] = "gone"]
  /\ UNCHANGED <<ledgerVars, runVars, cpc, idx, firstDone, starts, obsVars, poolVars, extVars>>

\* asyncio.run has waited for every cancelled task and re-raises; the finally of
\* start_batch closes the pool
FinishInterrupted ==
  /\ phase = "running"
  /\ interrupted
  /\ \A ch \in 1..Len(chunks) : \A m \in Modes : fetch[ch][m] # "orphan"
  /\ phase' = "idle"
  /\ UNCHANGED <<ledgerVars, runs, work, chunks, max_parallel, sem, chunkVars, obsVars,
                 poolVars, extVars>>

\* sem_task of the first chunk to run enters "async with semaphore";
\* process_chunk_with_pool finds no pool and awaits get_global_pool, which
\* creates the pool and starts its browsers
AcquireSemInit(ch) ==
  /\ phase = "running"
  /\ ~SyncBusy
  /\ cpc[ch] = "queued"
  /\ sem > 0
  /\ \A c \in 1..Len(chunks) : starts[c] = 0
  /\ sem' = sem - 1
  /\ cpc' = [cpc EXCEPT ![ch] = "pool"]
  /\ starts' = [starts EXCEPT ![ch] = @ + 1]
  /\ UNCHANGED <<ledgerVars, phase, runs, work, chunks, max_parallel, idx, fetch, firstDone,
                 obsVars, poolVars, extVars>>

\* get_global_pool returns the initialized pool: process_chunk starts its first hs
PoolInitOk(ch) ==
  /\ phase = "running"
  /\ ~SyncBusy
  /\ cpc[ch] = "pool"
  /\ cpc' = [cpc EXCEPT ![ch] = "fetch"]
  /\ UNCHANGED <<ledgerVars, runVars, idx, fetch, firstDone, starts, obsVars, poolVars, extVars>>

\* BrowserPool.initialize re-raises the failure of a browser start: it leaves
\* get_global_pool, process_chunk_with_pool and the chunk's sem_task, and the
\* gather of run_scheduler raises it.  asyncio.run cancels the other sem_tasks
\* and their fetches, the finally of start_batch closes the pool, and
\* start_batch raises: the lines after the try statement are not reached.
PoolInitFails(ch) ==
  /\ phase = "running"
  /\ ~SyncBusy
  /\ cpc[ch] = "pool"
  /\ phase' = "idle"
  /\ startError' = "Exception"
  /\ cpc' = [c \in 1..Len(chunks) |-> IF cpc[c] = "done" THEN "done" ELSE "cancelled"]
  /\ fetch' = [c \in 1..Len(chunks) |->
                 [m \in Modes |->
                    IF cpc[c] # "fetch" THEN fetch[c][m]
                    ELSE IF fetch[c][m] # "running" THEN "gone" ELSE "cancelled"]]
  /\ sem' = max_parallel
  /\ UNCHANGED <<ledgerVars, runs, work, chunks, max_parallel, idx, firstDone, starts,
                 obsVars, poolVars, retryVars, throttleVars, closeVars, chunkerVars, stats,
                 cancelVars, transformVars, loadVars, cleanVars>>

\* ------------------------------------------- browser pool, scrape tasks
Leased == {t \in Tasks : held[t] # 0}

\* faulty variant of retry_async: it never gives up, attempt does not advance
AfterRaiseUnbounded(t) ==
  /\ tpc' = [tpc EXCEPT ![t] = "start"]
  /\ attempt' = attempt

\* retry_async after controller.run raised: sleep and call again, or re-raise
\* after the last attempt (then _scrape_mode_with_retry returns (mode, None))
AfterRaise(t) ==
  IF attempt[t] = MaxRetries
  THEN /\ tpc' = [tpc EXCEPT ![t] = "failed"]
       /\ attempt' = [attempt EXCEPT ![t] = 0]
  ELSE /\ tpc' = [tpc EXCEPT ![t] = "start"]
       /\ attempt' = [attempt EXCEPT ![t] = @ + 1]

\* process_chunk_with_pool: get_global_pool finds no pool and creates one
CreatePoolByChunk ==
  /\ prun = "running"
  /\ poolState = "absent"
  /\ poolState' = "initializing"
  /\ created' = created + 1
  /\ poolId' = created + 1
  /\ UNCHANGED <<ledgerVars, runVars, chunkVars, obsVars, extVars,
                 active, available, tpc, held, attempt, lastExit,
                 started, gotPool, prun, pruns, closes>>

\* faulty variant of get_global_pool: creates a pool whenever none is initialized yet
CreatePoolByTaskUninitialized(t) ==
  /\ tpc[t] = "start"
  /\ poolState \in {"absent", "initializing"}
  /\ poolState' = "initializing"
  /\ created' = created + 1
  /\ poolId' = created + 1
  /\ tpc' = [tpc EXCEPT ![t] = "init"]
  /\ UNCHANGED <<ledgerVars, runVars, chunkVars, obsVars, extVars,
                 active, available, held, attempt, lastExit,
                 started, gotPool, prun, pruns, closes>>

\* controller.run: get_global_pool finds no pool, creates one and awaits initialize()
CreatePoolByTask(t) ==
  /\ tpc[t] = "start"
  /\ poolState = "absent"
  /\ poolState' = "initializing"
  /\ created' = created + 1
  /\ poolId' = created + 1
  /\ tpc' = [tpc EXCEPT ![t] = "init"]
  /\ UNCHANGED <<ledgerVars, runVars, chunkVars, obsVars, extVars,
                 active, available, held, attempt, lastExit,
                 started, gotPool, prun, pruns, closes>>

\* BrowserPool.initialize: one round of the loop (start a browser, append it to
\* active_browsers, put it on the queue); after the last round initialized = True
\* and the caller of get_global_pool gets the pool and goes on to get_browser
InitializeStep ==
  /\ poolState = "initializing"
  /\ Cardinality(active) < PoolSize
  /\ started' = started + 1
  /\ active' = active \cup {Cardinality(active) + 1}
  /\ available' = Append(available, Cardinality(active) + 1)
  /\ IF Cardinality(active') = PoolSize
     THEN /\ poolState' = "ready"
          /\ tpc' = [t \in Tasks |-> IF tpc[t] = "init" THEN "waiting" ELSE tpc[t]]
          /\ gotPool' = [t \in Tasks |-> IF tpc[t] = "init" THEN poolId ELSE gotPool[t]]
     ELSE UNCHANGED <<poolState, tpc, gotPool>>
  /\ UNCHANGED <<ledgerVars, runVars, chunkVars, obsVars, extVars, held, attempt, lastExit,
                 created, poolId, prun, pruns, closes>>

\* BrowserPool.initialize: the start of the next browser raises; except: log and
\* raise.  _global_pool stays the pool object with the browsers started so far.
\* The exception reaches the caller that awaits initialize: a scrape task inside
\* controller.run (before its try block), where retry_async catches it, or
\* process_chunk_with_pool, where it leaves the chunk's sem_task.
InitializeFails ==
  /\ poolState = "initializing"
  /\ Cardinality(active) < PoolSize
  /\ poolState' = "partial"
  /\ IF \E t \in Tasks : tpc[t] = "init"
     THEN LET t == CHOOSE u \in Tasks : tpc[u] = "init"
          IN  /\ lastExit' = [lastExit EXCEPT ![t] = "init_failed"]
              /\ AfterRaise(t)
              /\ UNCHANGED prun
     ELSE /\ prun' = "aborting"
          /\ UNCHANGED <<tpc, attempt, lastExit>>
  /\ UNCHANGED <<ledgerVars, runVars, chunkVars, obsVars, extVars, active, available, held,
                 created, poolId, started, gotPool, pruns, closes>>

\* controller.run: get_global_pool returns the existing pool (initialized or not),
\* then get_browser awaits the queue
CallGetBrowser(t) ==
  /\ tpc[t] = "start"
  /\ poolState # "absent"
  /\ tpc' = [tpc EXCEPT ![t] = "waiting"]
  /\ gotPool' = [gotPool EXCEPT ![t] = poolId]
  /\ UNCHANGED <<ledgerVars, runVars, chunkVars, obsVars, extVars,
                 poolState, active, available, held, attempt, lastExit,
                 created, poolId, started, prun, pruns, closes>>

\* faulty variant of get_browser: starts one more browser when the queue is empty
GetBrowserOnDemand(t) ==
  /\ tpc[t] = "waiting"
  /\ IF available # <<>>
     THEN /\ held' = [held EXCEPT ![t] = Head(available)]
          /\ available' = Tail(available)
     ELSE /\ held' = [held EXCEPT ![t] = PoolSize + t]
          /\ available' = available
  /\ tpc' = [tpc EXCEPT ![t] = "body"]
  /\ UNCHANGED <<ledgerVars, runVars, chunkVars, obsVars, extVars,
                 poolState, active, attempt, lastExit,
                 created, poolId, started, gotPool, prun, pruns, closes>>

\* get_browser: available_browsers.get() returns the head of the queue
GetBrowser(t) ==
  /\ tpc[t] = "waiting"
  /\ available # <<>>
  /\ held' = [held EXCEPT ![t] = Head(available)]
  /\ available' = Tail(available)
  /\ tpc' = [tpc EXCEPT ![t] = "body"]
  /\ UNCHANGED <<ledgerVars, runVars, chunkVars, obsVars, extVars,
                 poolState, active, attempt, lastExit,
                 created, poolId, started, gotPool, prun, pruns, closes>>

\* get_browser: asyncio.wait_for times out on the empty queue and raises, before
\* controller.run has entered its try block
GetBrowserTimeout(t) ==
  /\ tpc[t] = "waiting"
  /\ available = <<>>
  /\ lastExit' = [lastExit EXCEPT ![t] = "timeout"]
  /\ gotPool' = [gotPool EXCEPT ![t] = 0]
  /\ AfterRaise(t)
  /\ UNCHANGED <<ledgerVars, runVars, chunkVars, obsVars, extVars,
                 poolState, active, available, held,
                 created, poolId, started, prun, pruns, closes>>

\* BrowserPool.return_browser: put on the bounded queue (blocks while it is full)
ReturnBrowser(t) ==
  /\ Len(available) < PoolSize
  /\ available' = Append(available, held[t])
  /\ held' = [held EXCEPT ![t] = 0]

\* faulty variant of controller.run: no finally block, a raise keeps the page
PageRaisesNoFinally(t) ==
  /\ tpc[t] = "body"
  /\ held' = [held EXCEPT ![t] = 0]
  /\ lastExit' = [lastExit EXCEPT ![t] = "raised"]
  /\ gotPool' = [gotPool EXCEPT ![t] = 0]
  /\ AfterRaise(t)
  /\ UNCHANGED <<ledgerVars, runVars, chunkVars, obsVars, extVars, poolState, active, available,
                 created, poolId, started, prun, pruns, closes>>

\* controller.run: the try block returns the payload; finally returns the page
PageSucceeds(t) ==
  /\ tpc[t] = "body"
  /\ ReturnBrowser(t)
  /\ tpc' = [tpc EXCEPT ![t] = "ok"]
  /\ attempt' = [attempt EXCEPT ![t] = 0]
  /\ lastExit' = [lastExit EXCEPT ![t] = "payload"]
  /\ gotPool' = [gotPool EXCEPT ![t] = 0]
  /\ UNCHANGED <<ledgerVars, runVars, chunkVars, obsVars, extVars, poolState, active,
                 created, poolId, started, prun, pruns, closes>>

\* controller.run: a step of the try block raises; finally returns the page; the
\* exception reaches retry_async
PageRaises(t) ==
  /\ tpc[t] = "body"
  /\ ReturnBrowser(t)
  /\ lastExit' = [lastExit EXCEPT ![t] = "raised"]
  /\ gotPool' = [gotPool EXCEPT ![t] = 0]
  /\ AfterRaise(t)
  /\ UNCHANGED <<ledgerVars, runVars, chunkVars, obsVars, extVars, poolState, active,
                 created, poolId, started, prun, pruns, closes>>

\* process_chunk goes on to its next hs: a new _scrape_mode_with_retry task
NextScrapeTask(t) ==
  /\ tpc[t] \in {"ok", "failed"}
  /\ tpc' = [tpc EXCEPT ![t] = "start"]
  /\ lastExit' = [lastExit EXCEPT ![t] = "none"]
  /\ UNCHANGED <<ledgerVars, runVars, chunkVars, obsVars, extVars,
                 poolState, active, available, held, attempt,
                 created, poolId, started, gotPool, prun, pruns, closes>>

\* ---------------------------------------------------------- pool shutdown
NoClose == [kind |-> "none", tried |-> {}, failed |-> {}, raised |-> FALSE]

\* faulty variant of close_all: the first browser whose close() raises ends the loop
CloseAllRecordPropagating(kind, act, F) ==
  IF act \cap F = {}
  THEN [kind |-> kind, tried |-> act, failed |-> {}, raised |-> FALSE]
  ELSE LET first == CHOOSE b \in act \cap F : \A c \in act \cap F : b <= c
       IN  [kind |-> kind, tried |-> {b \in act : b <= first},
            failed |-> {first}, raised |-> TRUE]

\* BrowserPool.close_all over active_browsers act when close() raises for the
\* browsers in F: each is tried, a failure is logged and the loop goes on
CloseAllRecord(kind, act, F) ==
  [kind |-> kind, tried |-> act, failed |-> act \cap F, raised |-> FALSE]

\* faulty variant of close_global_pool: the queue outlives the pool object (as a
\* module-level queue would), the next pool starts with what the last one left
CloseGlobalPoolKeepsQueue(F) ==
  IF poolState = "absent"
  THEN /\ lastClose' = CloseAllRecord("close_global_pool", {}, {})
       /\ UNCHANGED <<poolState, active, available, poolId>>
  ELSE /\ lastClose' = CloseAllRecord("close_global_pool", active, F)
       /\ active' = {}
       /\ available' = available
       /\ poolState' = "absent"
       /\ poolId' = 0

\* close_global_pool: close_all and _global_pool = None, or nothing without a pool
CloseGlobalPool(F) ==
  IF poolState = "absent"
  THEN /\ lastClose' = CloseAllRecord("close_global_pool", {}, {})
       /\ UNCHANGED <<poolState, active, available, poolId>>
  ELSE /\ lastClose' = CloseAllRecord("close_global_pool", active, F)
       /\ IF lastClose'.raised
          THEN UNCHANGED <<poolState, active, available, poolId>>
          ELSE /\ active' = {}
               /\ available' = <<>>
               /\ poolState' = "absent"
               /\ poolId' = 0

\* faulty variant of process_chunk_with_pool: its finally block closes the pool
TaskEndsAndCloses(t) ==
  /\ tpc[t] \in {"ok", "failed"}
  /\ tpc' = [tpc EXCEPT ![t] = "end"]
  /\ lastExit' = [lastExit EXCEPT ![t] = "none"]
  /\ CloseGlobalPool({})
  /\ closes' = closes + 1
  /\ closeCalls' = closeCalls + 1
  /\ UNCHANGED <<ledgerVars, runVars, chunkVars, obsVars, dataVars, retryVars, throttleVars,
                 held, attempt, created, started, gotPool, prun, pruns>>

\* process_chunk_with_pool returns after the last hs of its chunk (finally: pass)
TaskEnds(t) ==
  /\ tpc[t] \in {"ok", "failed"}
  /\ tpc' = [tpc EXCEPT ![t] = "end"]
  /\ lastExit' = [lastExit EXCEPT ![t] = "none"]
  /\ UNCHANGED <<ledgerVars, runVars, chunkVars, obsVars, extVars,
                 poolState, active, available, held, attempt,
                 created, poolId, started, gotPool, prun, pruns, closes>>

\* start_batch: asyncio.run(run_scheduler(...)) is over; finally:
\* asyncio.run(close_global_pool())
ClosePoolAtEnd ==
  /\ prun = "running"
  /\ \A t \in Tasks : tpc[t] = "end"
  /\ \E F \in SUBSET active : CloseGlobalPool(F)
  /\ closes' = IF poolState = "absent" THEN closes ELSE closes + 1
  /\ closeCalls' = closeCalls + 1
  /\ prun' = "closed"
  /\ UNCHANGED <<ledgerVars, runVars, chunkVars, obsVars, dataVars, retryVars, throttleVars,
                 tpc, held, attempt, lastExit, created, started, gotPool, pruns>>

\* start_batch after run_scheduler raised: asyncio.run cancels the tasks still
\* running (the finally of controller.run returns a leased page), then finally:
\* asyncio.run(close_global_pool())
AbortPoolRun ==
  /\ prun = "aborting"
  /\ tpc' = [t \in Tasks |-> "end"]
  /\ held' = [t \in Tasks |-> 0]
  /\ attempt' = [t \in Tasks |-> 0]
  /\ gotPool' = [t \in Tasks |-> 0]
  /\ \E F \in SUBSET active : CloseGlobalPool(F)
  /\ closes' = closes + 1
  /\ closeCalls' = closeCalls + 1
  /\ prun' = "closed"
  /\ UNCHANGED <<ledgerVars, runVars, chunkVars, obsVars, dataVars, retryVars, throttleVars,
                 lastExit, created, started, pruns>>

\* start_batch is called again in the same process
StartNextPoolRun ==
  /\ prun = "closed"
  /\ pruns < MaxPoolRuns
  /\ pruns' = pruns + 1
  /\ prun' = "running"
  /\ tpc' = [t \in Tasks |-> "start"]
  /\ created' = 0
  /\ started' = 0
  /\ closes' = 0
  /\ lastClose' = NoClose
  /\ closeCalls' = 0
  /\ UNCHANGED <<ledgerVars, runVars, chunkVars, obsVars, dataVars, retryVars, throttleVars,
                 poolState, active, available, held, attempt, lastExit, poolId, gotPool>>

\* some caller awaits pool.close_all() on the global pool object
CloseAllCall(F) ==
  /\ poolState # "absent"
  /\ closeCalls < MaxCloseCalls
  /\ closeCalls' = closeCalls + 1
  /\ lastClose' = CloseAllRecord("close_all", active, F)
  /\ IF lastClose'.raised
     THEN UNCHANGED <<poolState, active>>
     ELSE active' = {} /\ poolState' = "closed"
  /\ UNCHANGED <<ledgerVars, runVars, chunkVars, obsVars, dataVars, retryVars, throttleVars,
                 available, tpc, held, attempt, lastExit,
                 created, poolId, started, gotPool, prun, pruns, closes>>

\* some caller awaits close_global_pool()
CloseGlobalPoolCall(F) ==
  /\ closeCalls < MaxCloseCalls
  /\ closeCalls' = closeCalls + 1
  /\ CloseGlobalPool(F)
  /\ UNCHANGED <<ledgerVars, runVars, chunkVars, obsVars, dataVars, retryVars, throttleVars,
                 tpc, held, attempt, lastExit,
                 created, started, gotPool, prun, pruns, closes>>

\* ------------------------------------------------------------ retry loop
RECURSIVE Pow(_, _)
Pow(b, k) == IF k = 0 THEN 1 ELSE b * Pow(b, k - 1)

\* the values random.random() takes: j / JitterSteps, j in JitterDraws
JitterDraws == 0..(JitterSteps - 1)

\* faulty variant of get_delay: exponential delay without the cap
GetDelayNoCap(cfg, att, j) ==
  LET delay == cfg.initial_delay * Pow(cfg.exponential_base, att)
  IN  IF cfg.jitter THEN delay * (JitterSteps + 2 * j)
      ELSE delay * 2 * JitterSteps

\* RetryConfig.get_delay(att) when random.random() draws j / JitterSteps; the
\* result delay * (0.5 + j / JitterSteps) is given in units of 1 / (2 * JitterSteps)
GetDelay(cfg, att, j) ==
  LET delay == Min(cfg.initial_delay * Pow(cfg.exponential_base, att), cfg.max_delay)
  IN  IF cfg.jitter THEN delay * (JitterSteps + 2 * j)
      ELSE delay * 2 * JitterSteps

RetryConfigs ==
  [max_retries : 0..MaxRetries, initial_delay : 1..MaxInitialDelay,
   max_delay : 1..MaxDelayCap, exponential_base : 1..MaxBase, jitter : BOOLEAN]

\* faulty variant of the try branch: the result is kept but the loop goes on to
\* its next round, and returns it after the last one
FuncReturnsLoopsOn ==
  /\ rpc = "call"
  /\ rcalls' = rcalls + 1
  /\ rresult' = Some(rcalls + 1)
  /\ IF rattempt = rcfg.max_retries
     THEN rpc' = "returned" /\ UNCHANGED rattempt
     ELSE rpc' = "call" /\ rattempt' = rattempt + 1
  /\ UNCHANGED <<ledgerVars, runVars, chunkVars, obsVars, dataVars, poolVars, throttleVars, closeVars,
                 rcfg, rvariant, rdelays, rraised>>

\* result = func(*args, **kwargs); return result
FuncReturns ==
  /\ rpc = "call"
  /\ rcalls' = rcalls + 1
  /\ rresult' = Some(rcalls + 1)
  /\ rpc' = "returned"
  /\ UNCHANGED <<ledgerVars, runVars, chunkVars, obsVars, dataVars, poolVars, throttleVars, closeVars,
                 rcfg, rvariant, rattempt, rdelays, rraised>>

\* faulty variant of the except branch: sleeps before it looks at the attempt number
FuncRaisesSleepsFirst ==
  /\ rpc = "call"
  /\ rcalls' = rcalls + 1
  /\ \E j \in (IF rcfg.jitter THEN JitterDraws ELSE {0}) :
        rdelays' = Append(rdelays, GetDelay(rcfg, rattempt, j))
  /\ IF rattempt = rcfg.max_retries
     THEN /\ rpc' = "raised"
          /\ rraised' = <<[call |-> rcalls + 1, retriable |-> TRUE]>>
     ELSE /\ rpc' = "sleep"
          /\ UNCHANGED rraised
  /\ UNCHANGED <<ledgerVars, runVars, chunkVars, obsVars, dataVars, poolVars, throttleVars, closeVars,
                 rcfg, rvariant, rattempt, rresult>>

\* func raises one of retriable_exceptions: re-raise after the last attempt,
\* otherwise delay = config.get_delay(attempt) and sleep
FuncRaises ==
  /\ rpc = "call"
  /\ rcalls' = rcalls + 1
  /\ IF rattempt = rcfg.max_retries
     THEN /\ rpc' = "raised"
          /\ rraised' = <<[call |-> rcalls + 1, retriable |-> TRUE]>>
          /\ UNCHANGED rdelays
     ELSE /\ \E j \in (IF rcfg.jitter THEN JitterDraws ELSE {0}) :
                rdelays' = Append(rdelays, GetDelay(rcfg, rattempt, j))
          /\ rpc' = "sleep"
          /\ UNCHANGED rraised
  /\ UNCHANGED <<ledgerVars, runVars, chunkVars, obsVars, dataVars, poolVars, throttleVars, closeVars,
                 rcfg, rvariant, rattempt, rresult>>

\* func raises an exception that is not one of retriable_exceptions: it propagates
FuncRaisesOther ==
  /\ rpc = "call"
  /\ rcalls' = rcalls + 1
  /\ rpc' = "raised"
  /\ rraised' = <<[call |-> rcalls + 1, retriable |-> FALSE]>>
  /\ UNCHANGED <<ledgerVars, runVars, chunkVars, obsVars, dataVars, poolVars, throttleVars, closeVars,
                 rcfg, rvariant, rattempt, rdelays, rresult>>

\* asyncio.sleep(delay) / time.sleep(delay) returns: the next round of the for loop
SleepEnds ==
  /\ rpc = "sleep"
  /\ rattempt' = rattempt + 1
  /\ rpc' = "call"
  /\ UNCHANGED <<ledgerVars, runVars, chunkVars, obsVars, dataVars, poolVars, throttleVars, closeVars,
                 rcfg, rvariant, rcalls, rdelays, rraised, rresult>>

\* ------------------------------------------------------ request throttler
Callers == 1..NumCallers
\* the host of both BASE_URLS
TargetHost == "tradestat.commerce.gov.in"
\* the domains wait is called with ("default" is its default argument)
Hosts == {TargetHost, "default"}

\* controller or another client calls throttler.wait(domain): "async with self.lock"
CallWait(t, h) ==
  /\ wpc[t] = "idle"
  /\ ncalls < MaxCalls
  /\ ncalls' = ncalls + 1
  /\ throttlerMade' = TRUE
  /\ wpc' = [wpc EXCEPT ![t] = "lockwait"]
  /\ whost' = [whost EXCEPT ![t] = h]
  /\ UNCHANGED <<ledgerVars, runVars, chunkVars, obsVars, dataVars, poolVars, retryVars, closeVars,
                 clock, tlock, last_request_time, wake, returned, navs>>

\* faulty variant of wait: the lock is released before the throttle sleep
ThrottleEnterNoHold(t) ==
  /\ wpc[t] = "lockwait"
  /\ tlock = 0
  /\ \E required_delay \in ThrottleMinDelay..ThrottleMaxDelay :
        IF clock - last_request_time[whost[t]] < required_delay
        THEN /\ wpc' = [wpc EXCEPT ![t] = "sleeping"]
             /\ wake' = [wake EXCEPT ![t] = last_request_time[whost[t]] + required_delay]
             /\ UNCHANGED <<tlock, last_request_time, whost, returned>>
        ELSE /\ last_request_time' = [last_request_time EXCEPT ![whost[t]] = clock]
             /\ returned' = [returned EXCEPT ![whost[t]] = Append(@, clock)]
             /\ wpc' = [wpc EXCEPT ![t] = "idle"]
             /\ whost' = [whost EXCEPT ![t] = "none"]
             /\ UNCHANGED <<tlock, wake>>
  /\ UNCHANGED <<ledgerVars, runVars, chunkVars, obsVars, dataVars, poolVars, retryVars, closeVars,
                 clock, throttlerMade, ncalls, navs>>

\* wait: the lock is acquired; now, last_time, required_delay; either sleep
\* wait_time = required_delay - time_since_last holding the lock, or record
\* time.time(), release the lock and return
ThrottleEnter(t) ==
  /\ wpc[t] = "lockwait"
  /\ tlock = 0
  /\ \E required_delay \in ThrottleMinDelay..ThrottleMaxDelay :
        IF clock - last_request_time[whost[t]] < required_delay
        THEN /\ tlock' = t
             /\ wpc' = [wpc EXCEPT ![t] = "sleeping"]
             /\ wake' = [wake EXCEPT ![t] = last_request_time[whost[t]] + required_delay]
             /\ UNCHANGED <<last_request_time, whost, returned>>
        ELSE /\ last_request_time' = [last_request_time EXCEPT ![whost[t]] = clock]
             /\ returned' = [returned EXCEPT ![whost[t]] = Append(@, clock)]
             /\ wpc' = [wpc EXCEPT ![t] = "idle"]
             /\ whost' = [whost EXCEPT ![t] = "none"]
             /\ UNCHANGED <<tlock, wake>>
  /\ UNCHANGED <<ledgerVars, runVars, chunkVars, obsVars, dataVars, poolVars, retryVars, closeVars,
                 clock, throttlerMade, ncalls, navs>>

\* wait: asyncio.sleep(wait_time) is over (not before its time); record
\* time.time(), release the lock and return
ThrottleWake(t) ==
  /\ wpc[t] = "sleeping"
  /\ clock >= wake[t]
  /\ last_request_time' = [last_request_time EXCEPT ![whost[t]] = clock]
  /\ returned' = [returned EXCEPT ![whost[t]] = Append(@, clock)]
  /\ tlock' = 0
  /\ wpc' = [wpc EXCEPT ![t] = "idle"]
  /\ whost' = [whost EXCEPT ![t] = "none"]
  /\ wake' = [wake EXCEPT ![t] = 0]
  /\ UNCHANGED <<ledgerVars, runVars, chunkVars, obsVars, dataVars, poolVars, retryVars, closeVars,
                 clock, throttlerMade, ncalls, navs>>

\* controller.run with its page: get_throttler(...), url = _build_url(), page.goto(url)
PageGoto(t, m) ==
  /\ wpc[t] = "idle"
  /\ ncalls < MaxCalls
  /\ ncalls' = ncalls + 1
  /\ throttlerMade' = TRUE
  /\ navs' = [navs EXCEPT ![TargetHost] = Append(@, clock)]
  /\ UNCHANGED <<ledgerVars, runVars, chunkVars, obsVars, dataVars, poolVars, retryVars, closeVars,
                 clock, tlock, last_request_time, wpc, whost, wake, returned>>

\* time passes
Tick ==
  /\ clock < MaxClock
  /\ clock' = clock + 1
  /\ UNCHANGED <<ledgerVars, runVars, chunkVars, obsVars, dataVars, poolVars, retryVars, closeVars,
                 throttlerMade, tlock, last_request_time, wpc, whost, wake,
                 ncalls, returned, navs>>

\* ------------------------------------------------------ strings, dicts
\* A str is a sequence of characters; a value that may be None is NULL or
\* Some(x).  A dict is a function whose domain is its set of keys.
Digits == {"0", "1", "2", "3", "4", "5", "6", "7", "8", "9"}
IsSpace(c) == c \in {" ", "\n"}
AllDigits(str) == \A i \in 1..Len(str) : str[i] \in Digits

\* str.lstrip()
RECURSIVE LStrip(_)
LStrip(str) ==
  IF str # <<>> /\ IsSpace(Head(str)) THEN LStrip(Tail(str)) ELSE str

\* str.rstrip()
RECURSIVE RStrip(_)
RStrip(str) ==
  IF str # <<>> /\ IsSpace(str[Len(str)])
  THEN RStrip(SubSeq(str, 1, Len(str) - 1))
  ELSE str

\* str.strip()
Strip(str) == RStrip(LStrip(str))

\* str.replace(",", "")
RemoveCommas(str) == SelectSeq(str, LAMBDA c : c # ",")

\* the whole of str is -?\d+(\.\d+)?
FullNumber(str) ==
  LET u == IF str # <<>> /\ Head(str) = "-" THEN Tail(str) ELSE str
      dots == {i \in 1..Len(u) : u[i] = "."}
  IN  /\ Len(u) >= 1
      /\ Cardinality(dots) <= 1
      /\ \A i \in (1..Len(u)) \ dots : u[i] \in Digits
      /\ \A i \in dots : 1 < i /\ i < Len(u)

\* re.match(r"^-?\d+(\.\d+)?$", str): "$" matches at the end of the string and
\* also just before a newline that ends the string
ReMatchNumber(str) ==
  \/ FullNumber(str)
  \/ /\ str # <<>>
     /\ str[Len(str)] = "\n"
     /\ FullNumber(SubSeq(str, 1, Len(str) - 1))

\* dict.get(key) with the default None
DictGet(d, k) == IF k \in DOMAIN d THEN d[k] ELSE NULL
\* dict.get(key, {})
DictGetDict(d, k) == IF k \in DOMAIN d THEN d[k] ELSE <<>>

\* ------------------------------------------------------ transform stages
\* Processor.parse_hs: slices of the code
ParseHs(hs_code) ==
  [hs8 |-> hs_code,
   sub_heading |-> SubSeq(hs_code, 1, Min(6, Len(hs_code))),
   heading |-> SubSeq(hs_code, 1, Min(4, Len(hs_code))),
   chapter |-> SubSeq(hs_code, 1, Min(2, Len(hs_code)))]

\* clean_rows on one value: a str is stripped and, when it then reads as a
\* number without its commas, loses the commas; None stays None
CleanValue(v) ==
  IF v = NULL THEN NULL
  ELSE LET t == Strip(v[1])
       IN  IF ReMatchNumber(RemoveCommas(t)) THEN Some(RemoveCommas(t)) ELSE Some(t)

\* Processor.clean_rows; rows is None or a list of dicts
CleanRows(rows) ==
  IF rows = NULL THEN <<>>
  ELSE [i \in 1..Len(rows[1]) |-> [k \in DOMAIN rows[1][i] |-> CleanValue(rows[1][i][k])]]

\* clean of clean_summary: x.replace(",", "").strip()
CleanSummaryValue(x) == IF x = NULL THEN NULL ELSE Some(Strip(RemoveCommas(x[1])))

SummaryKeys ==
  {"total_exports_selected_countries", "india_total_exports",
   "share_of_india_exports_percent"}

\* Processor.clean_summary; summary is None or the dict of SummaryParser.parse
CleanSummary(summary) ==
  IF summary = NULL THEN NULL
  ELSE Some([k \in SummaryKeys |->
               [prev |-> CleanSummaryValue(DictGet(summary[1][k], "2023_24")),
                curr |-> CleanSummaryValue(DictGet(summary[1][k], "2024_25")),
                growth |-> CleanSummaryValue(DictGet(summary[1][k], "growth_percent"))]])

\* process_raw_payload: the schema validation raises ValueError
ProcessRaises(raw_payload) ==
  \/ "metadata" \notin DOMAIN raw_payload
  \/ "hs_code" \notin DOMAIN raw_payload.metadata
  \/ "data_by_year" \notin DOMAIN raw_payload

\* process_raw_payload for a valid payload; id is the uuid4 drawn and now the
\* clock reading
ProcessRawPayload(raw_payload, id, now) ==
  [record_id |-> id,
   schema_version |-> "v1",
   pipeline_version |-> "1.0.0",
   processed_at_ist |-> now,
   metadata |-> raw_payload.metadata,
   hs |-> ParseHs(raw_payload.metadata.hs_code),
   trade_type |-> "EXPORT",
   frequency |-> "ANNUAL",
   source |-> [site |-> "https://tradestat.commerce.gov.in",
               dataset |-> "Commodity-wise all Countries",
               country |-> "India"],
   years |-> [y \in DOMAIN raw_payload.data_by_year |->
                [product_label |-> DictGet(raw_payload.data_by_year[y], "product_label"),
                 summary |-> CleanSummary(DictGet(raw_payload.data_by_year[y], "summary")),
                 partner_countries |->
                   CleanRows(DictGet(raw_payload.data_by_year[y], "partner_countries")),
                 total_pages |-> DictGet(raw_payload.data_by_year[y], "total_pages")]]]

\* the keys of a dict of years in insertion order (the years are inserted in
\* ascending order by the controller's loop)
YearOrder == <<"2023-2024", "2024-2025">>
YearsOf(d) == SelectSeq(YearOrder, LAMBDA y : y \in DOMAIN d)

\* summary.get(key, {}).get(field) of the normalizer
SummaryField(summary, k, field) == DictGet(DictGetDict(summary, k), field)

\* the flat row the normalizer builds for one partner row of one year; later
\* keys of the dict literal replace earlier ones
FlatRow(metadata, hs, year, row, summary) ==
  [summary_total_selected_prev |->
     SummaryField(summary, "total_exports_selected_countries", "prev"),
   summary_total_selected_curr |->
     SummaryField(summary, "total_exports_selected_countries", "curr"),
   summary_total_selected_growth |->
     SummaryField(summary, "total_exports_selected_countries", "growth"),
   summary_india_prev |-> SummaryField(summary, "india_total_exports", "prev"),
   summary_india_curr |-> SummaryField(summary, "india_total_exports", "curr"),
   summary_india_growth |-> SummaryField(summary, "india_total_exports", "growth"),
   summary_share_prev |-> SummaryField(summary, "share_of_india_exports_percent", "prev"),
   summary_share_curr |-> SummaryField(summary, "share_of_india_exports_percent", "curr")]
  @@ row
  @@ [pipeline_version |-> DictGet(metadata, "pipeline_version"),
      scrape_date_ist |-> DictGet(metadata, "scrape_date_ist"),
      scrape_time_ist |-> DictGet(metadata, "scrape_time_ist"),
      scrape_duration_sec |-> DictGet(metadata, "scrape_duration_sec"),
      site_url |-> DictGet(metadata, "site_url"),
      trade_type |-> DictGet(metadata, "trade_type"),
      data_frequency |-> DictGet(metadata, "data_frequency"),
      currency |-> DictGet(metadata, "currency"),
      hs_code |-> DictGet(hs, "hs_code"),
      chapter |-> DictGet(hs, "chapter"),
      heading |-> DictGet(hs, "heading"),
      sub_heading |-> DictGet(hs, "sub_heading"),
      hs_8 |-> DictGet(hs, "hs_8"),
      year |-> year]

\* the rows of the years ys (in order) of data_by_year
RECURSIVE NormalizeYears(_, _, _, _)
NormalizeYears(metadata, hs, data_by_year, ys) ==
  IF ys = <<>> THEN <<>>
  ELSE LET year_block == data_by_year[Head(ys)]
           partner_rows == DictGetDict(year_block, "partner_countries")
           summary == IF "summary" \in DOMAIN year_block
                      THEN year_block.summary[1] ELSE <<>>
       IN  [i \in 1..Len(partner_rows) |->
              FlatRow(metadata, hs, Head(ys), partner_rows[i], summary)]
           \o NormalizeYears(metadata, hs, data_by_year, Tail(ys))

\* normalize_processed_payload raises AttributeError: a year block with partner
\* rows whose summary is None (None has no get)
NormalizeRaises(processed) ==
  LET data_by_year == DictGetDict(processed, "data_by_year")
  IN  \E y \in DOMAIN data_by_year :
         /\ DictGetDict(data_by_year[y], "partner_countries") # <<>>
         /\ "summary" \in DOMAIN data_by_year[y]
         /\ data_by_year[y].summary = NULL

\* Normalizer.normalize_processed_payload
NormalizeProcessedPayload(processed) ==
  NormalizeYears(DictGetDict(processed, "metadata"), DictGetDict(processed, "hs"),
                 DictGetDict(processed, "data_by_year"),
                 YearsOf(DictGetDict(processed, "data_by_year")))

\* ------------------------------------ mode loop of process_chunk, with data
HsSamples == {<<"6", "1", "0", "9", "1", "0", "0", "0">>}
PayloadShapes == {"full", "no_metadata", "no_hs_code", "no_data_by_year"}

\* what SummaryParser.parse returns when the table has a footer
SampleSummary ==
  [k \in SummaryKeys |->
     ("2023_24" :> Some(<<"1", ",", "1">>)) @@ ("2024_25" :> Some(<<"1">>))
       @@ ("growth_percent" :> NULL)]

SampleRow == [Country |-> Some(<<"a">>), Value |-> Some(<<"1", ",", "1">>)]

\* all_year_data of controller.run: ys the years, n partner rows in each
DataByYear(ys, n, summary) ==
  [y \in ys |->
     [product_label |-> Some(<<"a">>),
      partner_countries |-> Some([i \in 1..n |-> SampleRow]),
      summary |-> summary,
      total_pages |-> Some(1)]]

MetadataOf(hs, m) ==
  [hs_code |-> hs, trade_mode |-> m, scraped_at_ist |-> "2025-01-01 00:00:00 IST",
   data_frequency |-> "Annual", currency |-> "USD Million", pipeline_version |-> "v1"]

\* the payload of controller.run, or one with a required field missing
RawPayload(shape, hs, m, data) ==
  IF shape = "no_metadata" THEN [status |-> "SUCCESS", data_by_year |-> data]
  ELSE IF shape = "no_hs_code"
       THEN [status |-> "SUCCESS",
             metadata |-> [trade_mode |-> m, scraped_at_ist |-> "2025-01-01 00:00:00 IST"],
             data_by_year |-> data]
  ELSE IF shape = "no_data_by_year"
       THEN [status |-> "SUCCESS", metadata |-> MetadataOf(hs, m)]
  ELSE [status |-> "SUCCESS", metadata |-> MetadataOf(hs, m), data_by_year |-> data]

Payloads(hs, m) ==
  {RawPayload(shape, hs, m, DataByYear(ys, n, sm)) :
     shape \in PayloadShapes, ys \in SUBSET Range(YearOrder), n \in 0..MaxPartners,
     sm \in {NULL, Some(SampleSummary)}}

\* the dicts results can be: a payload for one mode or for both
ResultDicts(hs) ==
  {("export" :> pe) @@ ("import" :> pi) : pe \in Payloads(hs, "export"),
                                          pi \in Payloads(hs, "import")}
  \cup UNION {{m :> pl : pl \in Payloads(hs, m)} : m \in Modes}

\* JSONWriter.write reads payload["metadata"]["scraped_at_ist"]
WriterRaises(payload) ==
  \/ "metadata" \notin DOMAIN payload
  \/ "scraped_at_ist" \notin DOMAIN payload.metadata

RawPath(m, hs) == <<"raw", m, hs>>
ProcessedPath(m, hs) == <<"processed", m, hs>>
\* normalized_root / date_folder / HS_<hs>_normalized.json: the mode is not in the path
NormalizedPath(hs) == <<"normalized", "any", hs>>

\* the exception one iteration of the mode loop ends with, as <<stage, type>>;
\* io names a stage whose file operation fails ("none": no such failure)
ModeError(result, id, now, io) ==
  IF WriterRaises(result) THEN <<"raw", "KeyError">>
  ELSE IF io = "raw" THEN <<"raw", "OSError">>
  ELSE IF ProcessRaises(result) THEN <<"process", "ValueError">>
  ELSE IF io = "processed" THEN <<"processed", "OSError">>
  ELSE IF io = "normalize" THEN <<"normalize", "OSError">>
  ELSE IF NormalizeRaises(ProcessRawPayload(result, id, now))
       THEN <<"normalize", "AttributeError">>
  ELSE <<"none", "none">>

\* the files one iteration of the mode loop writes before it ends or raises
ModeFiles(m, hs, result, id, now, io) ==
  LET err == ModeError(result, id, now, io)[1]
      processed == ProcessRawPayload(result, id, now)
      raw_file == IF err = "raw" THEN <<>> ELSE RawPath(m, hs) :> result
      processed_file == IF err \in {"raw", "process", "processed"} THEN <<>>
                        ELSE ProcessedPath(m, hs) :> processed
      normalized_file == IF err # "none" THEN <<>>
                         ELSE NormalizedPath(hs) :> NormalizeProcessedPayload(processed)
  IN  normalized_file @@ processed_file @@ raw_file

\* the paths one iteration of the mode loop writes, in order, when it ends with
\* an exception of stage err ("none": it ends without one)
ModeWrites(m, hs, err) ==
  (IF err = "raw" THEN <<>> ELSE <<RawPath(m, hs)>>)
  \o (IF err \in {"raw", "process", "processed"} THEN <<>> ELSE <<ProcessedPath(m, hs)>>)
  \o (IF err # "none" THEN <<>> ELSE <<NormalizedPath(hs)>>)

\* mode loop: trade_mode not in results
ModeLoopSkip(m) ==
  /\ tfPc = m
  /\ m \notin DOMAIN tfResults
  /\ tfPc' = NextModePc(m)
  /\ UNCHANGED <<ledgerVars, runVars, chunkVars, obsVars, poolVars, retryVars, throttleVars,
                 closeVars, chunkerVars, configVars, cancelVars, loadVars, cleanVars, tfHs, tfResults,
                 tfFiles, tfLedger, tfErr, tfStage, tfProcessed, tfWrites>>

\* mode loop: save raw, process, save processed, normalize, mark_<mode>_completed;
\* except Exception: mark_failed(hs, str(mode_err), trade_mode)
ModeLoopBody(m, id, now, io) ==
  /\ tfPc = m
  /\ m \in DOMAIN tfResults
  /\ LET err == ModeError(tfResults[m], id, now, io)
     IN  /\ tfFiles' = ModeFiles(m, tfHs, tfResults[m], id, now, io) @@ tfFiles
         /\ tfWrites' = tfWrites \o ModeWrites(m, tfHs, err[1])
         /\ tfErr' = [tfErr EXCEPT ![m] = err[2]]
         /\ tfLedger' = IF err[1] # "none"
                        THEN MarkFailed(tfLedger, tfHs, StageError(err[1], m), m)
                        ELSE IF m = "export"
                             THEN MarkExportCompleted(tfLedger, tfHs, 1)
                             ELSE MarkImportCompleted(tfLedger, tfHs, 1)
  /\ tfPc' = NextModePc(m)
  /\ UNCHANGED <<ledgerVars, runVars, chunkVars, obsVars, poolVars, retryVars, throttleVars,
                 closeVars, chunkerVars, configVars, cancelVars, loadVars, cleanVars, tfHs, tfResults,
                 tfStage, tfProcessed>>

\* if "export" in results and "import" in results: db.mark_completed(hs)
MarkOverall ==
  /\ tfPc = "overall"
  /\ tfLedger' = IF Modes \subseteq DOMAIN tfResults
                 THEN MarkCompleted(tfLedger, tfHs, 1)
                 ELSE tfLedger
  /\ tfPc' = "done"
  /\ UNCHANGED <<ledgerVars, runVars, chunkVars, obsVars, poolVars, retryVars, throttleVars,
                 closeVars, chunkerVars, configVars, cancelVars, loadVars, cleanVars, tfHs, tfResults,
                 tfFiles, tfErr, tfStage, tfProcessed, tfWrites>>

\* --------------------------- mode loop of process_chunk, stage by stage
\* except Exception as mode_err: db.mark_failed(hs, str(mode_err), trade_mode);
\* the for loop goes on to the next mode
StageFails(m, stage, type) ==
  /\ tfErr' = [tfErr EXCEPT ![m] = type]
  /\ tfLedger' = MarkFailed(tfLedger, tfHs, StageError(stage, m), m)
  /\ tfPc' = NextModePc(m)
  /\ tfStage' = "raw"
  /\ tfProcessed' = NULL
  /\ UNCHANGED <<tfFiles, tfWrites>>

\* the iteration goes on to its next statement
StageDone(next) ==
  /\ tfStage' = next
  /\ UNCHANGED <<tfPc, tfErr, tfLedger>>

\* faulty variant of the raw save: the payload is not written before Process runs
SaveRawSkipped(m, io) ==
  /\ tfPc = m
  /\ m \in DOMAIN tfResults
  /\ tfStage = "raw"
  /\ StageDone("process")
  /\ UNCHANGED <<ledgerVars, runVars, chunkVars, obsVars, poolVars, retryVars, throttleVars,
                 closeVars, chunkerVars, configVars, cancelVars, loadVars, cleanVars, tfHs, tfResults, tfFiles, tfWrites, tfProcessed>>

\* raw_writer.write(RAW_DATA_DIR, trade_mode, hs, result): json.dump of the
\* payload as gathered (a dict of str keys, lists, str, int and None, which
\* json.load gives back unchanged); io: the file operation fails
SaveRaw(m, io) ==
  /\ tfPc = m
  /\ m \in DOMAIN tfResults
  /\ tfStage = "raw"
  /\ IF WriterRaises(tfResults[m]) THEN StageFails(m, "raw", "KeyError")
     ELSE IF io THEN StageFails(m, "raw", "OSError")
     ELSE /\ tfFiles' = (RawPath(m, tfHs) :> tfResults[m]) @@ tfFiles
          /\ tfWrites' = Append(tfWrites, RawPath(m, tfHs))
          /\ StageDone("process")
          /\ UNCHANGED tfProcessed
  /\ UNCHANGED <<ledgerVars, runVars, chunkVars, obsVars, poolVars, retryVars, throttleVars,
                 closeVars, chunkerVars, configVars, cancelVars, loadVars, cleanVars, tfHs, tfResults>>

\* processed = Processor.process_raw_payload(result)
ProcessStage(m, id, now) ==
  /\ tfPc = m
  /\ tfStage = "process"
  /\ IF ProcessRaises(tfResults[m]) THEN StageFails(m, "process", "ValueError")
     ELSE /\ tfProcessed' = Some(ProcessRawPayload(tfResults[m], id, now))
          /\ StageDone("processed")
          /\ UNCHANGED <<tfFiles, tfWrites>>
  /\ UNCHANGED <<ledgerVars, runVars, chunkVars, obsVars, poolVars, retryVars, throttleVars,
                 closeVars, chunkerVars, configVars, cancelVars, loadVars, cleanVars, tfHs, tfResults>>

\* processed_writer.write(PROCESSED_DATA_DIR, trade_mode, hs, processed)
SaveProcessed(m, io) ==
  /\ tfPc = m
  /\ tfStage = "processed"
  /\ IF WriterRaises(tfProcessed[1]) THEN StageFails(m, "processed", "KeyError")
     ELSE IF io THEN StageFails(m, "processed", "OSError")
     ELSE /\ tfFiles' = (ProcessedPath(m, tfHs) :> tfProcessed[1]) @@ tfFiles
          /\ tfWrites' = Append(tfWrites, ProcessedPath(m, tfHs))
          /\ StageDone("normalize")
          /\ UNCHANGED tfProcessed
  /\ UNCHANGED <<ledgerVars, runVars, chunkVars, obsVars, poolVars, retryVars, throttleVars,
                 closeVars, chunkerVars, configVars, cancelVars, loadVars, cleanVars, tfHs, tfResults>>

\* Normalizer.write_normalized_file(processed_file, NORMALIZED_DATA_DIR): loads
\* the processed file, normalizes it and writes the rows
NormalizeStage(m, io) ==
  /\ tfPc = m
  /\ tfStage = "normalize"
  /\ LET processed == tfFiles[ProcessedPath(m, tfHs)]
     IN  IF io THEN StageFails(m, "normalize", "OSError")
         ELSE IF NormalizeRaises(processed) THEN StageFails(m, "normalize", "AttributeError")
         ELSE /\ tfFiles' = (NormalizedPath(tfHs) :> NormalizeProcessedPayload(processed))
                              @@ tfFiles
              /\ tfWrites' = Append(tfWrites, NormalizedPath(tfHs))
              /\ StageDone("mark")
              /\ UNCHANGED tfProcessed
  /\ UNCHANGED <<ledgerVars, runVars, chunkVars, obsVars, poolVars, retryVars, throttleVars,
                 closeVars, chunkerVars, configVars, cancelVars, loadVars, cleanVars, tfHs, tfResults>>

\* db.mark_export_completed(hs) / db.mark_import_completed(hs); the iteration ends
MarkModeCompleted(m) ==
  /\ tfPc = m
  /\ tfStage = "mark"
  /\ tfLedger' = IF m = "export" THEN MarkExportCompleted(tfLedger, tfHs, 1)
                 ELSE MarkImportCompleted(tfLedger, tfHs, 1)
  /\ tfPc' = NextModePc(m)
  /\ tfStage' = "raw"
  /\ tfProcessed' = NULL
  /\ UNCHANGED <<ledgerVars, runVars, chunkVars, obsVars, poolVars, retryVars, throttleVars,
                 closeVars, chunkerVars, configVars, cancelVars, loadVars, cleanVars, tfHs, tfResults, tfFiles, tfErr, tfWrites>>

\* the process dies between two statements: the files and the ledger stay as
\* they are on disk
Crash ==
  /\ tfPc # "done"
  /\ tfStage # "crashed"
  /\ tfStage' = "crashed"
  /\ UNCHANGED <<ledgerVars, runVars, chunkVars, obsVars, poolVars, retryVars, throttleVars,
                 closeVars, chunkerVars, configVars, cancelVars, loadVars, cleanVars, tfHs, tfResults, tfPc, tfFiles, tfLedger, tfErr, tfProcessed, tfWrites>>

\* ------------------------------------------------------- loading codes
\* the loop of load_hs_codes from line i on; hs_codes is the list so far and
\* seen is the set of its codes
RECURSIVE LoadFrom(_, _, _)
LoadFrom(lines, i, hs_codes) ==
  IF i > Len(lines) THEN hs_codes
  ELSE LET code == Strip(lines[i])
       IN  IF \/ code = <<>>
              \/ ~AllDigits(code)
              \/ Len(code) # HsCodeLen
              \/ code \in Range(hs_codes)
           THEN LoadFrom(lines, i + 1, hs_codes)
           ELSE LoadFrom(lines, i + 1, Append(hs_codes, code))

\* load_hs_codes(filepath)
LoadHsCodes(lines) == LoadFrom(lines, 1, <<>>)

\* codes = [line.strip() for line in f if line.strip()]
StrippedLines(lines) ==
  SelectSeq([i \in 1..Len(lines) |-> Strip(lines[i])], LAMBDA code : code # <<>>)

\* load_hs_codes returns the list of codes of the file
LoadHsCodesCall ==
  /\ ldPc = "call"
  /\ ldCodes' = LoadHsCodes(ldLines)
  /\ ldPc' = "loader"
  /\ UNCHANGED <<ledgerVars, runVars, chunkVars, obsVars, poolVars, retryVars, throttleVars,
                 closeVars, chunkerVars, configVars, cancelVars, transformVars, cleanVars, ldLines,
                 ldLedger, ldOrder>>

\* HSCodeDatabase.load_from_text_file on an empty ledger: bulk_insert(codes)
LoadFromTextFileCall ==
  /\ ldPc = "call"
  /\ ldLedger' = BulkInsert(ldLedger, StrippedLines(ldLines))
  /\ ldOrder' = AppendNew(ldOrder, StrippedLines(ldLines))
  /\ ldPc' = "db"
  /\ UNCHANGED <<ledgerVars, runVars, chunkVars, obsVars, poolVars, retryVars, throttleVars,
                 closeVars, chunkerVars, configVars, cancelVars, transformVars, cleanVars, ldLines,
                 ldCodes>>

\* lines a file of codes can hold: two codes, one with blanks around it, a
\* blank line, a short, a long and a non-numeric entry
LineSamples ==
  {<<"6", "1", "0", "9", "1", "0", "0", "0">>,
   <<" ", "6", "1", "0", "9", "1", "0", "0", "0", " ">>,
   <<"0", "1", "0", "1", "2", "1", "0", "0">>,
   <<>>,
   <<" ">>,
   <<"6", "1", "0", "9", "1", "0", "0">>,
   <<"6", "1", "0", "9", "1", "0", "0", "0", "0">>,
   <<"6", "1", "0", "9", "1", "0", "0", "a">>}

\* ------------------------------------- Process and Normalize, repeated
Chars == {"1", ",", ".", " ", "\n", "-", "a"}
Strings == UNION {[1..n -> Chars] : n \in 0..MaxStrLen}

\* a payload of controller.run with one year holding the rows
PayloadWithRows(rows) ==
  [status |-> "SUCCESS",
   metadata |-> MetadataOf(<<"6", "1", "0", "9", "1", "0", "0", "0">>, "export"),
   data_by_year |-> (YearOrder[1] :>
                       [product_label |-> Some(<<"a">>), partner_countries |-> rows,
                        summary |-> NULL, total_pages |-> Some(1)])]

\* Processor.process_raw_payload called once more on the same payload
ProcessCall(id, now) ==
  /\ Len(clProcessed) < MaxRepeats
  /\ clNormalized = <<>>
  /\ clProcessed' = Append(clProcessed, ProcessRawPayload(PayloadWithRows(clRows), id, now))
  /\ UNCHANGED <<ledgerVars, runVars, chunkVars, obsVars, poolVars, retryVars, throttleVars,
                 closeVars, chunkerVars, configVars, cancelVars, transformVars, loadVars,
                 clRows, clNormalized>>

\* Normalizer.normalize_processed_payload called once more on the first record
NormalizeCall ==
  /\ clProcessed # <<>>
  /\ Len(clNormalized) < MaxRepeats
  /\ ~NormalizeRaises(clProcessed[1])
  /\ clNormalized' = Append(clNormalized, NormalizeProcessedPayload(clProcessed[1]))
  /\ UNCHANGED <<ledgerVars, runVars, chunkVars, obsVars, poolVars, retryVars, throttleVars,
                 closeVars, chunkerVars, configVars, cancelVars, transformVars, loadVars,
                 clRows, clProcessed>>

\* ------------------------------------------------------- specifications
InitPoolVars ==
  /\ poolState = "absent"
  /\ active = {}
  /\ available = <<>>
  /\ tpc = [t \in Tasks |-> "start"]
  /\ held = [t \in Tasks |-> 0]
  /\ attempt = [t \in Tasks |-> 0]
  /\ lastExit = [t \in Tasks |-> "none"]
  /\ created = 0
  /\ poolId = 0
  /\ started = 0
  /\ gotPool = [t \in Tasks |-> 0]
  /\ prun = "running"
  /\ pruns = 1
  /\ closes = 0

InitRunVars ==
  /\ ledger = <<>>
  /\ rowOrder = <<>>
  /\ phase = "idle"
  /\ runs = 0
  /\ work = 0
  /\ chunks = <<>>
  /\ max_parallel = 1
  /\ sem = 1
  /\ cpc = <<>>
  /\ idx = <<>>
  /\ fetch = <<>>
  /\ firstDone = <<>>
  /\ starts = <<>>
  /\ atLoad = <<>>
  /\ outcome = <<>>
  /\ transformed = {}

\* no retry call under way
InitRetryVars ==
  /\ rcfg = [max_retries |-> MaxRetries, initial_delay |-> 1, max_delay |-> 1,
             exponential_base |-> 1, jitter |-> FALSE]
  /\ rvariant = "async"
  /\ rpc = "call"
  /\ rattempt = 0
  /\ rcalls = 0
  /\ rdelays = <<>>
  /\ rraised = NULL
  /\ rresult = NULL

\* entry of retry_async / retry_sync with some RetryConfig
InitRetryCall ==
  /\ rcfg \in RetryConfigs
  /\ rvariant \in {"async", "sync"}
  /\ rpc = "call"
  /\ rattempt = 0
  /\ rcalls = 0
  /\ rdelays = <<>>
  /\ rraised = NULL
  /\ rresult = NULL

\* no throttler yet; the clock reads a time long after time 0
InitThrottleVars ==
  /\ clock = ThrottleMaxDelay
  /\ throttlerMade = FALSE
  /\ tlock = 0
  /\ last_request_time = [h \in Hosts |-> 0]
  /\ wpc = [t \in Callers |-> "idle"]
  /\ whost = [t \in Callers |-> "none"]
  /\ wake = [t \in Callers |-> 0]
  /\ ncalls = 0
  /\ returned = [h \in Hosts |-> <<>>]
  /\ navs = [h \in Hosts |-> <<>>]

InitCloseVars ==
  /\ lastClose = NoClose
  /\ closeCalls = 0

\* no chunk_list call under way
InitChunkerVars ==
  /\ ckData = <<>>
  /\ ckSize = 1
  /\ ckPc = "call"
  /\ ckResult = <<>>

\* entry of chunk_list with some list and some chunk size
InitChunkCall ==
  /\ ckData \in UNION {[1..n -> Codes] : n \in 0..MaxChunkInput}
  /\ ckSize \in -1..MaxChunkArg
  /\ ckPc = "call"
  /\ ckResult = <<>>

\* no mode loop under way
InitTransformVars ==
  /\ tfHs = <<>>
  /\ tfResults = <<>>
  /\ tfPc = "done"
  /\ tfFiles = <<>>
  /\ tfLedger = <<>>
  /\ tfErr = [m \in Modes |-> "none"]
  /\ tfStage = "raw"
  /\ tfProcessed = NULL
  /\ tfWrites = <<>>

\* no file loaded
InitLoadVars ==
  /\ ldLines = <<>>
  /\ ldPc = "call"
  /\ ldCodes = <<>>
  /\ ldLedger = <<>>
  /\ ldOrder = <<>>

\* no payload processed
InitCleanVars ==
  /\ clRows = NULL
  /\ clProcessed = <<>>
  /\ clNormalized = <<>>

\* start_batch has not been called
InitConfigVars ==
  /\ startError = "none"
  /\ stats = NULL

InitDataVars ==
  /\ InitChunkerVars
  /\ InitConfigVars
  /\ interrupted = FALSE
  /\ InitTransformVars
  /\ InitLoadVars
  /\ InitCleanVars

InitExtVars == InitRetryVars /\ InitThrottleVars /\ InitCloseVars /\ InitDataVars

Init == InitRunVars /\ InitPoolVars /\ InitExtVars

Next ==
  \/ \E l \in InsertLists : BulkInsertCall(l)
  \/ StartBatchEmpty
  \/ \E cs \in 1..MaxChunkSize, mp \in 1..MaxParallel : StartBatch(cs, mp)
  \/ \E ch \in 1..Len(chunks) :
       \/ AcquireSem(ch)
       \/ \E m \in Modes : FetchSucceeds(ch, m) \/ FetchExhausted(ch, m)
       \/ JoinBothFailed(ch)
       \/ JoinSome(ch)
       \/ SkipMode(ch)
       \/ TransformOk(ch)
       \/ \E i \in 1..Len(Stages) : TransformFails(ch, Stages[i])
       \/ OverallCompleted(ch)
       \/ OverallSkipped(ch)
  \/ FinishRun

Spec == Init /\ [][Next]_vars

\* start_batch on a ledger no run has touched yet
FirstBatch(chunk_size, mp) ==
  /\ runs = 0
  /\ StartBatch(chunk_size, mp)

\* one batch run, from loading the ledger to the final stats
NextOneRun ==
  \/ \E l \in InsertLists : BulkInsertCall(l)
  \/ StartBatchEmpty
  \/ \E cs \in 1..MaxChunkSize, mp \in 1..MaxParallel : FirstBatch(cs, mp)
  \/ \E ch \in 1..Len(chunks) :
       \/ AcquireSem(ch)
       \/ \E m \in Modes : FetchSucceeds(ch, m) \/ FetchExhausted(ch, m)
       \/ JoinBothFailed(ch)
       \/ JoinSome(ch)
       \/ SkipMode(ch)
       \/ TransformOk(ch)
       \/ \E i \in 1..Len(Stages) : TransformFails(ch, Stages[i])
       \/ OverallCompleted(ch)
       \/ OverallSkipped(ch)
  \/ FinishRun

\* the event loop runs every ready task
FairSpec == Init /\ [][NextOneRun]_vars /\ WF_vars(NextOneRun)

NextPool ==
  \/ CreatePoolByChunk
  \/ InitializeStep
  \/ \E t \in Tasks :
       \/ CreatePoolByTask(t)
       \/ CallGetBrowser(t)
       \/ GetBrowser(t)
       \/ GetBrowserTimeout(t)
       \/ PageSucceeds(t)
       \/ PageRaises(t)
       \/ NextScrapeTask(t)
       \/ TaskEnds(t)
  \/ ClosePoolAtEnd
  \/ StartNextPoolRun

SpecPool == Init /\ [][NextPool]_vars

\* batch runs in which the start of a browser can fail
NextPoolFail ==
  \/ NextPool
  \/ InitializeFails
  \/ AbortPoolRun

SpecPoolFail == Init /\ [][NextPoolFail]_vars

\* one batch run in which every scrape task fetches one (hs, mode)
NextPoolOneRun ==
  \/ CreatePoolByChunk
  \/ InitializeStep
  \/ \E t \in Tasks :
       \/ CreatePoolByTask(t)
       \/ CallGetBrowser(t)
       \/ GetBrowser(t)
       \/ GetBrowserTimeout(t)
       \/ PageSucceeds(t)
       \/ PageRaises(t)
       \/ TaskEnds(t)
  \/ ClosePoolAtEnd

\* the event loop runs every ready task, every page interaction ends and every
\* timer fires
FairPoolSpec == Init /\ [][NextPoolOneRun]_vars /\ WF_vars(NextPoolOneRun)

NextRetry ==
  \/ FuncReturns
  \/ FuncRaises
  \/ FuncRaisesOther
  \/ SleepEnds

InitRetry ==
  InitRunVars /\ InitPoolVars /\ InitThrottleVars /\ InitCloseVars /\ InitDataVars /\ InitRetryCall

\* one call of retry_async or retry_sync
SpecRetry == InitRetry /\ [][NextRetry]_vars

\* queues the pool can hold: each browser at most once
Queues(act) ==
  {q \in UNION {[1..n -> act] : n \in 0..PoolSize} :
      \A i, j \in 1..Len(q) : i # j => q[i] # q[j]}

\* a pool as a run can have left it: absent, being initialized or initialized,
\* every started browser either on the queue or leased by one scrape task
InitPoolAnyState ==
  /\ poolState \in {"absent", "initializing", "ready"}
  /\ active \in {1..k : k \in 0..PoolSize}
  /\ poolState = "absent" => active = {}
  /\ poolState = "initializing" => Cardinality(active) < PoolSize
  /\ poolState = "ready" => active = Handles
  /\ available \in Queues(active)
  /\ held \in [Tasks -> 0..PoolSize]
  /\ \A t, u \in Tasks : (t # u /\ held[t] # 0) => held[t] # held[u]
  /\ {held[t] : t \in Tasks} \ {0} = active \ Range(available)
  /\ tpc = [t \in Tasks |-> IF held[t] # 0 THEN "body" ELSE "start"]
  /\ attempt = [t \in Tasks |-> 0]
  /\ lastExit = [t \in Tasks |-> "none"]
  /\ created = IF poolState = "absent" THEN 0 ELSE 1
  /\ poolId = created
  /\ started = Cardinality(active)
  /\ gotPool = [t \in Tasks |-> IF held[t] # 0 THEN 1 ELSE 0]
  /\ prun = "running"
  /\ pruns = 1
  /\ closes = 0

NextClose ==
  \/ \E F \in SUBSET active : CloseAllCall(F)
  \/ \E F \in SUBSET active : CloseGlobalPoolCall(F)

InitClose ==
  InitRunVars /\ InitRetryVars /\ InitThrottleVars /\ InitCloseVars /\ InitDataVars /\ InitPoolAnyState

\* close_all / close_global_pool called on a pool in any state
SpecClose == InitClose /\ [][NextClose]_vars

NextThrottle ==
  \/ \E t \in Callers :
       \/ \E h \in Hosts : CallWait(t, h)
       \/ ThrottleEnter(t)
       \/ ThrottleWake(t)
       \/ \E m \in Modes : PageGoto(t, m)
  \/ Tick

\* concurrent callers of the throttler and page navigations of controller.run
SpecThrottle == Init /\ [][NextThrottle]_vars

\* one batch run started with any chunk_size and max_parallel
NextConfig ==
  \/ \E l \in InsertLists : BulkInsertCall(l)
  \/ StartBatchEmpty
  \/ \E cs \in -1..MaxChunkSize, mp \in -1..MaxParallel :
       \/ startError = "none" /\ StartBatchChunkSizeRaises(cs)
       \/ startError = "none" /\ StartBatchSemaphoreRaises(cs, mp)
       \/ startError = "none" /\ FirstBatch(cs, mp)
  \/ \E ch \in 1..Len(chunks) :
       \/ AcquireSem(ch)
       \/ \E m \in Modes : FetchSucceeds(ch, m) \/ FetchExhausted(ch, m)
       \/ JoinBothFailed(ch)
       \/ JoinSome(ch)
       \/ SkipMode(ch)
       \/ TransformOk(ch)
       \/ \E i \in 1..Len(Stages) : TransformFails(ch, Stages[i])
       \/ OverallCompleted(ch)
       \/ OverallSkipped(ch)
  \/ FinishRun

SpecConfig == Init /\ [][NextConfig]_vars

\* one batch run that an operator may interrupt
NextCancel ==
  \/ \E l \in InsertLists : BulkInsertCall(l)
  \/ StartBatchEmpty
  \/ \E cs \in 1..MaxChunkSize, mp \in 1..MaxParallel : FirstBatch(cs, mp)
  \/ \E ch \in 1..Len(chunks) :
       \/ AcquireSem(ch)
       \/ \E m \in Modes : FetchSucceeds(ch, m) \/ FetchExhausted(ch, m) \/ OrphanEnds(ch, m)
       \/ JoinBothFailed(ch)
       \/ JoinSome(ch)
       \/ SkipMode(ch)
       \/ TransformOk(ch)
       \/ \E i \in 1..Len(Stages) : TransformFails(ch, Stages[i])
       \/ OverallCompleted(ch)
       \/ OverallSkipped(ch)
  \/ \E S \in SUBSET ((1..Len(chunks)) \X Modes) : InterruptRun(S)
  \/ FinishRun
  \/ FinishInterrupted

SpecCancel == Init /\ [][NextCancel]_vars

\* one batch run whose first chunk creates the browser pool
NextRunFail ==
  \/ \E l \in InsertLists : BulkInsertCall(l)
  \/ StartBatchEmpty
  \/ \E cs \in 1..MaxChunkSize, mp \in 1..MaxParallel : FirstBatch(cs, mp)
  \/ \E ch \in 1..Len(chunks) :
       \/ AcquireSemInit(ch)
       \/ PoolInitOk(ch)
       \/ PoolInitFails(ch)
       \/ (\E c \in 1..Len(chunks) : starts[c] > 0) /\ AcquireSem(ch)
       \/ \E m \in Modes : FetchSucceeds(ch, m) \/ FetchExhausted(ch, m)
       \/ JoinBothFailed(ch)
       \/ JoinSome(ch)
       \/ SkipMode(ch)
       \/ TransformOk(ch)
       \/ \E i \in 1..Len(Stages) : TransformFails(ch, Stages[i])
       \/ OverallCompleted(ch)
       \/ OverallSkipped(ch)
  \/ FinishRun

SpecRunFail == Init /\ [][NextRunFail]_vars

\* the gather of process_chunk returned results for a pending hs
InitTransformCall ==
  /\ tfHs \in HsSamples
  /\ tfResults \in ResultDicts(tfHs)
  /\ tfPc = "export"
  /\ tfFiles = <<>>
  /\ tfLedger = (tfHs :> NewRow)
  /\ tfErr = [m \in Modes |-> "none"]
  /\ tfStage = "raw"
  /\ tfProcessed = NULL
  /\ tfWrites = <<>>

NextTransform ==
  \/ \E m \in Modes :
       \/ ModeLoopSkip(m)
       \/ \E id \in 1..MaxIds, io \in {"none", "raw", "processed", "normalize"} :
            ModeLoopBody(m, id, 1, io)
  \/ MarkOverall

InitTransform ==
  InitRunVars /\ InitPoolVars /\ InitRetryVars /\ InitThrottleVars /\ InitCloseVars
    /\ InitChunkerVars /\ InitConfigVars /\ interrupted = FALSE /\ InitLoadVars
    /\ InitCleanVars /\ InitTransformCall

\* the mode loop of process_chunk for one hs
SpecTransform == InitTransform /\ [][NextTransform]_vars

NextStages ==
  \/ \E m \in Modes :
       \/ tfStage # "crashed" /\ ModeLoopSkip(m)
       \/ \E io \in BOOLEAN : SaveRaw(m, io) \/ SaveProcessed(m, io) \/ NormalizeStage(m, io)
       \/ \E id \in 1..MaxIds : ProcessStage(m, id, 1)
       \/ MarkModeCompleted(m)
  \/ tfStage # "crashed" /\ MarkOverall
  \/ Crash

\* the mode loop of process_chunk for one hs, statement by statement, with a
\* crash possible between any two statements
SpecStages == InitTransform /\ [][NextStages]_vars

\* a file of up to MaxLines lines is about to be loaded
InitLoadCall ==
  /\ ldLines \in UNION {[1..n -> LineSamples] : n \in 0..MaxLines}
  /\ ldPc = "call"
  /\ ldCodes = <<>>
  /\ ldLedger = <<>>
  /\ ldOrder = <<>>

NextLoad ==
  \/ LoadHsCodesCall
  \/ LoadFromTextFileCall

InitLoad ==
  InitRunVars /\ InitPoolVars /\ InitRetryVars /\ InitThrottleVars /\ InitCloseVars
    /\ InitChunkerVars /\ InitConfigVars /\ interrupted = FALSE /\ InitTransformVars
    /\ InitCleanVars /\ InitLoadCall

\* one file of codes loaded by load_hs_codes or by load_from_text_file
SpecLoad == InitLoad /\ [][NextLoad]_vars

\* a payload whose rows hold some string, or None, under one key
InitCleanCall ==
  /\ clRows \in {NULL} \cup
        {Some([i \in 1..n |-> [Country |-> Some(<<"a">>), Value |-> v]]) :
           n \in 0..MaxCleanRows, v \in {NULL} \cup {Some(str) : str \in Strings}}
  /\ clProcessed = <<>>
  /\ clNormalized = <<>>

NextClean ==
  \/ \E id \in 1..MaxIds : ProcessCall(id, Len(clProcessed) + 1)
  \/ NormalizeCall

InitClean ==
  InitRunVars /\ InitPoolVars /\ InitRetryVars /\ InitThrottleVars /\ InitCloseVars
    /\ InitChunkerVars /\ InitConfigVars /\ interrupted = FALSE /\ InitTransformVars
    /\ InitLoadVars /\ InitCleanCall

\* Process and Normalize applied repeatedly to one payload
SpecClean == InitClean /\ [][NextClean]_vars

NextChunk ==
  \/ ChunkListReturns
  \/ ChunkListRaises

InitChunk ==
  InitRunVars /\ InitPoolVars /\ InitRetryVars /\ InitThrottleVars /\ InitCloseVars
    /\ InitChunkCall /\ InitConfigVars /\ interrupted = FALSE /\ InitTransformVars
    /\ InitLoadVars /\ InitCleanVars

\* one call of chunk_list
SpecChunk == InitChunk /\ [][NextChunk]_vars

\* ------------------------------------------------------------ properties
\* hs whose iteration of process_chunk's for loop has ended in the latest run
Finished(c) ==
  \E ch \in 1..Len(chunks) : \E i \in 1..Len(chunks[ch]) :
     /\ chunks[ch][i] = c
     /\ cpc[ch] = "done" \/ (cpc[ch] # "queued" /\ i < idx[ch])

\* hs whose iteration is under way
InProgress(c) ==
  \E ch \in 1..Len(chunks) : cpc[ch] \notin {"queued", "done"} /\ Item(ch) = c

NoDuplicates(q) == \A i, j \in 1..Len(q) : i # j => q[i] # q[j]

\* C1: the browsers leased and not yet returned never number more than pool_size;
\* a get_browser leases a browser only in a step from a state with fewer than
\* pool_size leases and a non-empty queue, whose head it gets; while pool_size
\* leases are outstanding a waiting get_browser stays waiting or ends by its
\* timeout, without a browser; once the queue holds a browser it can proceed.
C1_PoolBound ==
  /\ [](Cardinality(Leased) <= PoolSize)
  /\ [](\A t \in Tasks : (tpc[t] = "waiting" /\ available # <<>>) => ENABLED GetBrowser(t))
  /\ [][\A t \in Tasks :
          /\ (held[t] = 0 /\ held'[t] # 0) =>
                /\ Cardinality(Leased) < PoolSize
                /\ available # <<>>
                /\ held'[t] = Head(available)
          /\ (tpc[t] = "waiting" /\ Cardinality(Leased) = PoolSize) =>
                \/ tpc'[t] = "waiting"
                \/ /\ tpc'[t] \in {"start", "failed"}
                   /\ lastExit'[t] = "timeout"
                   /\ held'[t] = 0]_vars

\* every browser is leased while a third task waits for one
C1_Witness ==
  /\ Cardinality(Leased) = PoolSize
  /\ \E t \in Tasks : tpc[t] = "waiting"

\* C2: a page is held exactly by the tasks inside controller.run's try block;
\* every started browser is either on the queue once or held by one task, never
\* both and never twice (so a run that returned or raised has put its page back
\* once, and a timed-out get_browser has put nothing); when no task holds a page
\* and the pool is initialized the queue holds all pool_size handles, each once.
C2_LeaseReturnedOnce ==
  /\ NoDuplicates(available)
  /\ \A t \in Tasks : held[t] # 0 <=> tpc[t] = "body"
  /\ \A t, u \in Tasks : (t # u /\ held[t] # 0) => held[t] # held[u]
  /\ \A t \in Tasks : held[t] \notin Range(available)
  /\ Range(available) \cup {held[t] : t \in Leased} = active
  /\ (Leased = {} /\ poolState = "ready") =>
        (Len(available) = PoolSize /\ Range(available) = Handles)

\* one run ended with a payload, one raised, one get_browser timed out, and all
\* pages are back
C2_Witness ==
  /\ Leased = {}
  /\ Len(available) = PoolSize
  /\ \E t, u, v \in Tasks :
        lastExit[t] = "payload" /\ lastExit[u] = "raised" /\ lastExit[v] = "timeout"

C4_PartialFailureRecorded ==
  \A c \in DOMAIN outcome : \A m \in Modes :
     (Finished(c) /\ outcome[c][m] = "completed"
                  /\ outcome[c][OtherMode(m)] = "fetch_failed") =>
        /\ ModeStatus(ledger[c], m) = "completed"
        /\ ModeStatus(ledger[c], OtherMode(m)) = "failed"
        /\ ledger[c].status = "pending"
        /\ ledger[c].error_count = atLoad[c].error_count + 1

\* C5: a row whose overall status is completed has both mode statuses completed.
C5_CompletedImpliesBoth ==
  \A c \in DOMAIN ledger :
     ledger[c].status = "completed" =>
        (ledger[c].export_status = "completed" /\ ledger[c].import_status = "completed")

\* a row is completed although a transform of it had been marked failed
C5_Witness ==
  \E c \in DOMAIN ledger : ledger[c].status = "completed" /\ ledger[c].error_count > 0

\* C6: for a row that is not being processed, overall status is completed if
\* and only if both mode statuses are completed.
C6_OverallIffBoth ==
  \A c \in DOMAIN ledger :
     ~InProgress(c) =>
        (ledger[c].status = "completed" <=>
           (ledger[c].export_status = "completed" /\ ledger[c].import_status = "completed"))

\* C7: the step in which the worker writes one mode of hs X (mark_<mode>_completed
\* or mark_failed with that mode) leaves X's other mode status and timestamp, X's
\* overall status and timestamp, and every other row as they were.
C7_ModeWriteFrame ==
  [][\A ch \in 1..Len(chunks) :
       (phase = "running" /\ cpc[ch] \in Modes /\ cpc[ch] \in Results(ch)
          /\ cpc'[ch] = NextModePc(cpc[ch])) =>
          LET c == Item(ch)
              o == OtherMode(cpc[ch])
          IN /\ DOMAIN ledger' = DOMAIN ledger
             /\ ModeStatus(ledger'[c], o) = ModeStatus(ledger[c], o)
             /\ ModeScrapedAt(ledger'[c], o) = ModeScrapedAt(ledger[c], o)
             /\ ledger'[c].status = ledger[c].status
             /\ ledger'[c].last_scraped_at = ledger[c].last_scraped_at
             /\ \A d \in DOMAIN ledger \ {c} : ledger'[d] = ledger[d]]_vars

\* the export of a row was written while its import was already completed by
\* an earlier run and another row existed
C7_Witness ==
  \E ch \in 1..Len(chunks) :
     /\ cpc[ch] = "import"
     /\ "export" \in Results(ch)
     /\ ledger[Item(ch)].import_status = "completed"
     /\ ledger[Item(ch)].export_scraped_at = <<runs>>
     /\ Cardinality(DOMAIN ledger) > 1

\* C8: a transform stage failed for (hs, mode): once the item is finished the
\* ledger shows that mode failed, with that stage's error as last_error (or the
\* error of the other mode's stage, when that failed after it).
C8_StageFailureRecorded ==
  \A c \in DOMAIN outcome : \A m \in Modes :
     (Finished(c) /\ outcome[c][m] = "stage_failed") =>
        /\ ModeStatus(ledger[c], m) = "failed"
        /\ \E i \in 1..Len(Stages) :
              \/ ledger[c].last_error = <<StageError(Stages[i], m)>>
              \/ /\ outcome[c][OtherMode(m)] = "stage_failed"
                 /\ ledger[c].last_error = <<StageError(Stages[i], OtherMode(m))>>

\* C9: both fetches of an item failed: once it is finished its overall status is
\* failed with the combined message, error_count is one more than at load, its
\* mode statuses are as loaded and no transform stage was entered for it; the
\* step that joins two failed fetches moves the chunk to its next item, or ends
\* the chunk after its last item.
C9_BothFetchesFailed ==
  /\ [](\A c \in DOMAIN outcome :
          (Finished(c) /\ \A m \in Modes : outcome[c][m] = "fetch_failed") =>
             /\ ledger[c].status = "failed"
             /\ ledger[c].last_error = <<BothFailedMsg>>
             /\ ledger[c].error_count = atLoad[c].error_count + 1
             /\ \A m \in Modes : ModeStatus(ledger[c], m) = ModeStatus(atLoad[c], m)
             /\ \A m \in Modes : <<c, m>> \notin transformed)
  /\ [][\A ch \in 1..Len(chunks) :
          (phase = "running" /\ cpc[ch] = "fetch"
             /\ (\A m \in Modes : fetch[ch][m] = "none")
             /\ <<cpc'[ch], idx'[ch], fetch'[ch]>> # <<cpc[ch], idx[ch], fetch[ch]>>) =>
             IF idx[ch] < Len(chunks[ch])
             THEN cpc'[ch] = "fetch" /\ idx'[ch] = idx[ch] + 1 /\ fetch'[ch] = NewFetch
             ELSE cpc'[ch] = "done"]_vars

\* a chunk is at its second item after both fetches of its first item failed
C9_Witness ==
  \E ch \in 1..Len(chunks) :
     /\ idx[ch] = 2
     /\ cpc[ch] = "fetch"
     /\ \A m \in Modes : outcome[chunks[ch][1]][m] = "fetch_failed"
     /\ ledger[chunks[ch][1]].status = "failed"

\* C10: a step that changes the overall status of a row is taken by the chunk
\* processing that row, from a state in which both of its fetches are terminal.
C10_JoinBeforeOverall ==
  [][\A c \in DOMAIN ledger :
       (phase = "running" /\ ledger'[c].status # ledger[c].status) =>
          \E ch \in 1..Len(chunks) :
             /\ cpc[ch] \notin {"queued", "done"}
             /\ Item(ch) = c
             /\ \A m \in Modes : Terminal(ch, m)]_vars

\* both fetches succeeded, the import first, and the overall write is next
C10_Witness ==
  \E ch \in 1..Len(chunks) :
     /\ cpc[ch] = "overall"
     /\ BothInResults(ch)
     /\ firstDone[ch] = "import"

\* C11: a retry call never invokes func more than max_retries + 1 times and never
\* sleeps after the final attempt; when every invocation raised a retriable
\* exception, the call ends after exactly max_retries + 1 invocations and
\* max_retries sleeps by raising the exception of the last invocation.
C11_RetryTermination ==
  /\ rcalls <= rcfg.max_retries + 1
  /\ Len(rdelays) <= rcfg.max_retries
  /\ rpc = "sleep" => (rattempt < rcfg.max_retries /\ Len(rdelays) = rcalls)
  /\ (rpc = "raised" /\ rraised[1].retriable) =>
        /\ rcalls = rcfg.max_retries + 1
        /\ Len(rdelays) = rcfg.max_retries
        /\ rraised[1].call = rcalls

\* a call with the largest max_retries gave up after func failed every time
C11_Witness ==
  /\ rpc = "raised"
  /\ rraised[1].retriable
  /\ rcfg.max_retries = MaxRetries
  /\ rcalls = MaxRetries + 1

\* min(initial_delay * exponential_base^k, max_delay)
CappedDelay(cfg, k) ==
  IF cfg.initial_delay * Pow(cfg.exponential_base, k) <= cfg.max_delay
  THEN cfg.initial_delay * Pow(cfg.exponential_base, k)
  ELSE cfg.max_delay

\* C12: for every attempt index k, get_delay(k) without jitter is
\* min(initial_delay * exponential_base^k, max_delay), and with jitter lies
\* between 0.5 and 1.5 times that value; the capped value does not decrease with
\* k and no delay exceeds 1.5 * max_delay; the delays a retry call sleeps are
\* such values for k = 0, 1, ...  (delays are in units of 1 / (2 * JitterSteps)).
C12_DelayBounds ==
  /\ \A k \in 0..MaxAttemptIndex : \A j \in JitterDraws :
        /\ ~rcfg.jitter => GetDelay(rcfg, k, j) = 2 * JitterSteps * CappedDelay(rcfg, k)
        /\ rcfg.jitter => /\ JitterSteps * CappedDelay(rcfg, k) <= GetDelay(rcfg, k, j)
                          /\ GetDelay(rcfg, k, j) <= 3 * JitterSteps * CappedDelay(rcfg, k)
        /\ GetDelay(rcfg, k, j) <= 3 * JitterSteps * rcfg.max_delay
        /\ CappedDelay(rcfg, k) <= CappedDelay(rcfg, k + 1)
  /\ \A i \in 1..Len(rdelays) :
        /\ JitterSteps * CappedDelay(rcfg, i - 1) <= rdelays[i]
        /\ rdelays[i] <= 3 * JitterSteps * CappedDelay(rcfg, i - 1)
        /\ ~rcfg.jitter => rdelays[i] = 2 * JitterSteps * CappedDelay(rcfg, i - 1)

\* a retry call slept a jittered delay that the cap had cut
C12_Witness ==
  \E i \in 1..Len(rdelays) :
     /\ rcfg.jitter
     /\ rcfg.initial_delay * Pow(rcfg.exponential_base, i - 1) > rcfg.max_delay
     /\ rdelays[i] # 2 * JitterSteps * rcfg.max_delay

\* C13: successive returns of wait for one host are at least min_delay apart,
\* under every interleaving of callers, and after a return the host's
\* last-request time is the time of that return.
C13_ThrottlerSpacing ==
  \A h \in Hosts :
     /\ \A i \in 1..(Len(returned[h]) - 1) :
           returned[h][i + 1] - returned[h][i] >= ThrottleMinDelay
     /\ last_request_time[h] = IF returned[h] = <<>> THEN 0
                               ELSE returned[h][Len(returned[h])]

\* the second wait for a host returned exactly min_delay after the first, and a
\* third call for that host is in its throttle sleep
C13_Witness ==
  \E h \in Hosts :
     /\ Len(returned[h]) = 2
     /\ returned[h][2] - returned[h][1] = ThrottleMinDelay
     /\ \E t \in Callers : wpc[t] = "sleeping" /\ whost[t] = h

\* C14: a caller of wait for one host can enter while another caller is in its
\* throttle sleep for a different host.
C14_HostsIndependent ==
  \A t, u \in Callers :
     (wpc[t] = "lockwait" /\ wpc[u] = "sleeping" /\ whost[u] # whost[t])
        => ENABLED ThrottleEnter(t)

\* C15: every page navigation passed through wait for its host, and two
\* navigations to the same host are at least min_delay apart.
C15_FetchesThrottled ==
  \A h \in Hosts :
     /\ Len(navs[h]) <= Len(returned[h])
     /\ \A i \in 1..(Len(navs[h]) - 1) : navs[h][i + 1] - navs[h][i] >= ThrottleMinDelay

\* C16: a get_browser that timed out ends its fetch at once: the task is not
\* sent back to call controller.run (and get_browser) again.
C16_PoolExhaustionNotRetried ==
  \A t \in Tasks : lastExit[t] = "timeout" => tpc[t] = "failed"

\* C17: in a batch run at most one BrowserPool is created and at most pool_size
\* browsers are started, exactly pool_size once the pool is initialized; every
\* scrape task that is past get_global_pool holds that one pool.
C17_OnePoolPerRun ==
  /\ created <= 1
  /\ started <= PoolSize
  /\ poolState # "absent" => (created = 1 /\ poolId = 1)
  /\ poolState = "ready" => (started = PoolSize /\ active = Handles)
  /\ \A t \in Tasks : tpc[t] \in {"waiting", "body"} => (gotPool[t] = poolId /\ poolId # 0)

\* while the task that created the pool still awaits initialize, two other
\* first callers have got the same pool
C17_Witness ==
  /\ poolState = "initializing"
  /\ \E t, u, v \in Tasks :
        /\ tpc[t] = "init"
        /\ u # v
        /\ tpc[u] = "waiting" /\ gotPool[u] = poolId
        /\ tpc[v] \in {"waiting", "body"} /\ gotPool[v] = poolId

\* C18: in a batch run the pool is closed at most once, and the step that closes
\* it starts from a state where every chunk's task has ended; once start_batch
\* is past its finally block the pool has been closed once and no scrape task
\* waits for or holds a browser.
C18_ShutdownOncePerRun ==
  /\ [](closes <= 1)
  /\ [](prun = "closed" =>
          /\ closes = 1
          /\ poolState = "absent"
          /\ Leased = {}
          /\ \A t \in Tasks : tpc[t] = "end")
  /\ [][closes' > closes => \A t \in Tasks : tpc[t] = "end"]_vars

\* the second batch run of the process has closed its own pool
C18_Witness ==
  /\ pruns = 2
  /\ prun = "closed"
  /\ closes = 1
  /\ lastClose.tried = Handles

\* C19: no close call raises; each call tries to close every browser of the
\* pool, whatever failed, and leaves no active browser and no leased page
\* changed; a close call that follows one of the same kind, or finds no pool,
\* changes nothing in the pool.
C19_ShutdownIdempotentTotal ==
  /\ [](~lastClose.raised)
  /\ [][closeCalls' = closeCalls + 1 =>
          /\ ~lastClose'.raised
          /\ lastClose'.tried = active
          /\ active' = {}
          /\ held' = held
          /\ poolState' \in {"closed", "absent"}
          /\ lastClose'.kind = "close_global_pool" => poolState' = "absent"
          /\ (lastClose'.kind = lastClose.kind \/ poolState = "absent") =>
                <<poolState', active', available', poolId'>> =
                   <<poolState, active, available, poolId>>]_vars

\* close_all was called a second time while a page was still leased
C19_Witness ==
  /\ closeCalls = 2
  /\ lastClose.kind = "close_all"
  /\ poolState = "closed"
  /\ Leased # {}

\* C20: the ledger holds one row per code; no step removes a row or changes the
\* order of the rows; a bulk_insert leaves every existing row as it was, adds a
\* row for each code of its list that had none, and a new row has overall,
\* export and import status pending, error_count 0 and no timestamp or error.
C20_BulkInsertIdempotent ==
  /\ [](NoDuplicates(rowOrder) /\ Range(rowOrder) = DOMAIN ledger)
  /\ [][/\ DOMAIN ledger \subseteq DOMAIN ledger'
        /\ Len(rowOrder) <= Len(rowOrder')
        /\ SubSeq(rowOrder', 1, Len(rowOrder)) = rowOrder
        /\ \A l \in InsertLists :
              BulkInsertCall(l) => DOMAIN ledger' = DOMAIN ledger \cup Range(l)
        /\ (phase = "idle" /\ phase' = "idle") =>
              /\ \A c \in DOMAIN ledger : ledger'[c] = ledger[c]
              /\ \A c \in DOMAIN ledger' \ DOMAIN ledger :
                    /\ ledger'[c].status = "pending"
                    /\ ledger'[c].export_status = "pending"
                    /\ ledger'[c].import_status = "pending"
                    /\ ledger'[c].error_count = 0
                    /\ ledger'[c].last_scraped_at = NULL
                    /\ ledger'[c].export_scraped_at = NULL
                    /\ ledger'[c].import_scraped_at = NULL
                    /\ ledger'[c].last_error = NULL]_vars

\* after a run that completed one row and failed a mode of it, a bulk_insert
\* added a new row next to it
C20_Witness ==
  /\ phase = "idle"
  /\ \E c, d \in DOMAIN ledger :
        /\ ledger[c].status = "completed"
        /\ ledger[c].error_count > 0
        /\ d \notin DOMAIN atLoad
        /\ ledger[d] = NewRow

\* the chunk lengths of a list of chunks, added up
RECURSIVE SumLen(_)
SumLen(cs) == IF cs = <<>> THEN 0 ELSE Len(cs[1]) + SumLen(Tail(cs))

\* the chunks of a list of chunks, concatenated in order
RECURSIVE Concat(_)
Concat(cs) == IF cs = <<>> THEN <<>> ELSE cs[1] \o Concat(Tail(cs))

\* C21: for a list of N items and a chunk size S > 0, chunk_list returns
\* ceil(N/S) chunks, each but possibly the last of exactly S items, none empty,
\* their lengths sum to N and their concatenation in order is the input list.
C21_ChunkerTotality ==
  ckPc = "returned" =>
    /\ Len(ckResult) * ckSize >= Len(ckData)
    /\ (Len(ckResult) - 1) * ckSize < Len(ckData) \/ Len(ckResult) = 0
    /\ \A i \in 1..(Len(ckResult) - 1) : Len(ckResult[i]) = ckSize
    /\ \A i \in 1..Len(ckResult) : Len(ckResult[i]) \in 1..ckSize
    /\ SumLen(ckResult) = Len(ckData)
    /\ Concat(ckResult) = ckData

\* a list whose length is no multiple of the chunk size was split into
\* several chunks, the last one shorter
C21_Witness ==
  /\ ckPc = "returned"
  /\ Len(ckResult) >= 3
  /\ Len(ckResult[Len(ckResult)]) < ckSize
  /\ \E i, j \in 1..Len(ckData) : ckData[i] # ckData[j]

\* C22: a batch run with chunk_size <= 0 or max_parallel = 0 ends at startup
\* with a configuration error: no run is ever under way with such a setting.
C22_ConfigFailsFast ==
  phase = "running" => (max_parallel > 0 /\ startError = "none")

\* C23: whatever fetches and stages fail, a chunk ends only after its last
\* item, every item whose iteration has ended has an outcome for both modes,
\* and a run under way ends with an outcome for every code it loaded as pending.
C23_FailuresStayInChunk ==
  /\ [](\A ch \in 1..Len(chunks) : cpc[ch] = "done" => idx[ch] = Len(chunks[ch]))
  /\ [](\A c \in DOMAIN outcome :
          Finished(c) => \A m \in Modes : outcome[c][m] # "none")
  /\ (phase = "running") ~>
        (/\ phase = "idle"
         /\ \A c \in DOMAIN atLoad :
               atLoad[c].status = "pending" =>
                 \A m \in Modes : outcome[c][m] # "none")

\* the first item of a chunk failed (a stage raised, or both fetches were
\* exhausted) and the next item of the same chunk completed a mode
C23_Witness ==
  \E ch \in 1..Len(chunks) :
     /\ Len(chunks[ch]) = 2
     /\ cpc[ch] = "done"
     /\ \E m \in Modes : outcome[chunks[ch][1]][m] = "stage_failed"
     /\ \E m \in Modes : outcome[chunks[ch][1]][m] = "fetch_failed"
     /\ \E m \in Modes : outcome[chunks[ch][2]][m] = "completed"

\* C24: the chunks of a run hold exactly the codes whose overall status was
\* pending when the run loaded the ledger, each once; within the run an item is
\* started once (a chunk's position only moves forward, a fetch starts only
\* when the position moves); a row that was completed or failed at load is
\* not changed by the run; and an overall status of completed or failed never
\* changes again, in any run.
C24_OnlyPendingProcessed ==
  /\ [](phase = "running" =>
          /\ Range(Concat(chunks)) = {c \in DOMAIN atLoad : atLoad[c].status = "pending"}
          /\ NoDuplicates(Concat(chunks)))
  /\ [](phase = "running" =>
          \A c \in DOMAIN outcome :
             (InProgress(c) \/ \E m \in Modes : outcome[c][m] # "none")
                => atLoad[c].status = "pending")
  /\ [][(phase = "running" /\ runs' = runs) =>
          /\ \A ch \in 1..Len(chunks) :
                /\ idx'[ch] \in {idx[ch], idx[ch] + 1}
                /\ starts'[ch] >= starts[ch] /\ starts'[ch] <= 1
                /\ \A m \in Modes :
                      (fetch[ch][m] # "running" /\ fetch'[ch][m] = "running")
                         => idx'[ch] = idx[ch] + 1
          /\ \A c \in DOMAIN atLoad :
                atLoad[c].status \in {"completed", "failed"} => ledger'[c] = ledger[c]]_vars
  /\ [][\A c \in DOMAIN ledger :
           ledger[c].status \in {"completed", "failed"}
              => ledger'[c].status = ledger[c].status]_vars

\* a second run is under way: a row that was completed or failed when the run
\* loaded the ledger is as it was, and a pending code has completed a mode
C24_Witness ==
  /\ phase = "running"
  /\ runs >= 2
  /\ \E c, d \in DOMAIN atLoad :
        /\ atLoad[c].status \in {"completed", "failed"}
        /\ ledger[c] = atLoad[c]
        /\ atLoad[d].status = "pending"
        /\ \E m \in Modes : outcome[d][m] = "completed"

\* the step is a mark_failed call for code c: the overall one after both
\* fetches failed, or the mode-level one after a stage raised
MarkFailedStep(c) ==
  \E ch \in 1..Len(chunks) :
     /\ cpc[ch] \notin {"queued", "done"}
     /\ Item(ch) = c
     /\ JoinBothFailed(ch) \/ \E i \in 1..Len(Stages) : TransformFails(ch, Stages[i])

\* C26: error_count of a row never decreases, grows by exactly one in a step
\* that calls mark_failed for its code, and is unchanged in every other step
\* (mark_completed, mark_export_completed, mark_import_completed, bulk_insert).
C26_ErrorCountMonotone ==
  [][\A c \in DOMAIN ledger :
       /\ ledger'[c].error_count >= ledger[c].error_count
       /\ MarkFailedStep(c) => ledger'[c].error_count = ledger[c].error_count + 1
       /\ ~MarkFailedStep(c) => ledger'[c].error_count = ledger[c].error_count]_vars

\* a row that failed a stage in each mode was then marked completed and keeps
\* its two errors
C26_Witness ==
  \E c \in DOMAIN ledger :
     /\ ledger[c].status = "completed"
     /\ ledger[c].error_count = 2
     /\ c \in DOMAIN outcome
     /\ \A m \in Modes : outcome[c][m] = "stage_failed"

\* C25: an interrupt of a run aborts no Scrape Task that is in flight: each
\* runs on to success or exhausted retries before the pool is shut down.
C25_CancelDrainsInFlight ==
  \A ch \in 1..Len(chunks) : \A m \in Modes : fetch[ch][m] # "cancelled"

\* the partner rows of all years of a raw payload, counted
RECURSIVE PartnerRowCount(_, _)
PartnerRowCount(data_by_year, ys) ==
  IF ys = <<>> THEN 0
  ELSE Len(CleanRows(DictGet(data_by_year[Head(ys)], "partner_countries")))
         + PartnerRowCount(data_by_year, Tail(ys))

\* C27: when a mode's iteration has processed and normalized its payload, the
\* normalized file holds one row per partner row of every year of the payload,
\* and every row carries the code, its first 2 and first 4 digits and the mode.
C27_NormalizeRowPerPartner ==
  \A m \in Modes :
     (m \in DOMAIN tfResults /\ tfErr[m] = "none" /\ tfPc = NextModePc(m)) =>
        LET data_by_year == tfResults[m].data_by_year
            rows == tfFiles[NormalizedPath(tfHs)]
        IN  /\ Len(rows) = PartnerRowCount(data_by_year, YearsOf(data_by_year))
            /\ \A i \in 1..Len(rows) :
                  /\ rows[i].hs_code = tfHs
                  /\ rows[i].chapter = SubSeq(tfHs, 1, 2)
                  /\ rows[i].heading = SubSeq(tfHs, 1, 4)
                  /\ rows[i].trade_type = m

\* the payload lacks metadata.hs_code or data_by_year
SchemaInvalid(payload) ==
  \/ "metadata" \notin DOMAIN payload
  \/ "hs_code" \notin DOMAIN payload.metadata
  \/ "data_by_year" \notin DOMAIN payload

\* the mode loop is past mode m
ModeDone(m) == tfPc \in (IF m = "export" THEN {"import", "overall", "done"}
                                         ELSE {"overall", "done"})

\* C28: a mode whose payload lacks metadata.hs_code or data_by_year ends its
\* iteration with an error and without a processed file, and from then on the
\* ledger shows that mode as failed.
C28_SchemaFailureRecorded ==
  \A m \in DOMAIN tfResults :
     (ModeDone(m) /\ SchemaInvalid(tfResults[m])) =>
        /\ tfErr[m] # "none"
        /\ ProcessedPath(m, tfHs) \notin DOMAIN tfFiles
        /\ ModeStatus(tfLedger[tfHs], m) = "failed"

\* the code is 8 characters long, all of them digits
ValidCode(code) == Len(code) = 8 /\ \A i \in 1..8 : code[i] \in Digits

\* C29: every code that loading put on the work list or into the ledger is an
\* 8-digit numeric code and is there once.
C29_LoadedCodesValid ==
  /\ \A i \in 1..Len(ldCodes) : ValidCode(ldCodes[i])
  /\ NoDuplicates(ldCodes)
  /\ \A code \in DOMAIN ldLedger : ValidCode(code)
  /\ NoDuplicates(ldOrder)

\* what the row cleaning is to make of a value: None stays None; a string whose
\* stripped text without its commas is a number becomes that number; any other
\* string is stripped only
ExpectedClean(v) ==
  IF v = NULL THEN NULL
  ELSE IF FullNumber(RemoveCommas(Strip(v[1])))
       THEN Some(RemoveCommas(Strip(v[1])))
       ELSE Some(Strip(v[1]))

\* C30: every record the Process stage returns for a payload keeps every row
\* and every key of the rows, holds for every value the number without commas
\* and surrounding whitespace when the value is numeric once its commas are
\* removed and the stripped value otherwise; two Process calls on the payload
\* agree on the cleaned years, and two Normalize calls on a record agree.
C30_CleanRowsNumeric ==
  /\ \A c \in 1..Len(clProcessed) :
        LET cleaned == clProcessed[c].years[YearOrder[1]].partner_countries
        IN  IF clRows = NULL THEN cleaned = <<>>
            ELSE /\ Len(cleaned) = Len(clRows[1])
                 /\ \A i \in 1..Len(cleaned) :
                       /\ DOMAIN cleaned[i] = DOMAIN clRows[1][i]
                       /\ \A k \in DOMAIN cleaned[i] :
                             cleaned[i][k] = ExpectedClean(clRows[1][i][k])
  /\ \A c, d \in 1..Len(clProcessed) : clProcessed[c].years = clProcessed[d].years
  /\ \A c, d \in 1..Len(clNormalized) : clNormalized[c] = clNormalized[d]

\* C31: every batch run that starts ends with the ledger summary: the step
\* that ends a run logs the stats of the ledger as that step leaves it, and a
\* call that finds no pending code logs them too.
C31_SummaryLastStep ==
  [][/\ (phase = "running" /\ phase' = "idle") => stats' = Some(GetStats(ledger'))
     /\ (phase = "idle" /\ phase' = "idle" /\ stats' # stats) =>
           stats' = Some(GetStats(ledger'))]_vars

C33_CompletedHasFiles ==
  \A m \in Modes :
     ModeStatus(tfLedger[tfHs], m) = "completed" =>
        /\ RawPath(m, tfHs) \in DOMAIN tfFiles
        /\ ProcessedPath(m, tfHs) \in DOMAIN tfFiles
        /\ NormalizedPath(tfHs) \in DOMAIN tfFiles

\* C34: a normalized file written for one mode of a code is not written again
\* for its other mode: no later write goes to the path of an earlier normalized
\* write.
C34_NormalizedNotOverwritten ==
  \A i, j \in 1..Len(tfWrites) :
     (i < j /\ tfWrites[i][1] = "normalized") => tfWrites[j] # tfWrites[i]

C36_StopsAtFirstSuccess ==
  /\ [](/\ rpc = "returned" =>
              /\ rattempt <= rcfg.max_retries
              /\ rcalls = rattempt + 1
              /\ Len(rdelays) = rattempt
              /\ rresult = Some(rcalls)
              /\ rraised = NULL
        /\ (rraised # NULL /\ ~rraised[1].retriable) =>
              /\ rraised[1].call = rcalls
              /\ Len(rdelays) = rcalls - 1
              /\ rresult = NULL)
  /\ [][(rpc = "returned" \/ rpc = "raised") =>
          (rcalls' = rcalls /\ rdelays' = rdelays /\ rresult' = rresult)]_vars

\* the third invocation succeeded after two failed ones, with a retry left
C36_Witness ==
  /\ rpc = "returned"
  /\ rattempt = 2
  /\ rcfg.max_retries = MaxRetries
  /\ rvariant = "async"

\* C37: in every batch run of a process, also after an earlier run has closed
\* its pool, the run starts without a pool, with nothing queued and nothing
\* leased; the pool it creates holds only browsers started in this run, all
\* PoolSize of them once it is ready; the queue has room for each browser
\* initialize puts on it; and a page a task holds or can get from the queue is
\* a live browser of the current pool.
C37_FreshPoolEachRun ==
  /\ (prun = "running" /\ created = 0) =>
        /\ poolState = "absent"
        /\ poolId = 0
        /\ active = {}
        /\ available = <<>>
        /\ \A t \in Tasks : held[t] = 0
  /\ poolState # "absent" => (created = 1 /\ Cardinality(active) = started)
  /\ poolState = "ready" => (active = Handles /\ started = PoolSize)
  /\ poolState = "initializing" => Len(available) < PoolSize
  /\ Range(available) \subseteq active
  /\ \A t \in Tasks : held[t] # 0 => held[t] \in active

\* the second run of the process has its pool ready and a task of it holds a page
C37_Witness ==
  /\ pruns = 2
  /\ prun = "running"
  /\ poolState = "ready"
  /\ \E t \in Tasks : held[t] # 0

\* C38: when the start of a browser fails during initialize, the failure is
\* raised to the caller of get_global_pool, and from then on no task of the run
\* obtains from get_global_pool a pool with fewer than PoolSize browsers.
C38_PartialPoolNotReused ==
  [][/\ (poolState = "initializing" /\ poolState' = "partial") =>
          \/ \E t \in Tasks : tpc[t] = "init" /\ lastExit'[t] = "init_failed"
          \/ prun' = "aborting"
     /\ \A t \in Tasks :
          (poolState = "partial" /\ gotPool[t] = 0 /\ gotPool'[t] # 0) =>
             Cardinality(active) = PoolSize]_vars

====
